---------------------------- MODULE Spec2Model ----------------------------
(***************************************************************************)
(* A model of the audio core of minih-livekit's agent:                     *)
(*   - LocalASR            (src/agent/src/services/asr.py)                 *)
(*   - LocalSpeechStream   (src/agent/src/plugins/stt.py)                  *)
(*   - AudioRecorder       (src/agent/src/services/recorder.py)            *)
(*   - VolcEngineTTSClient (src/agent/src/services/tts.py)                 *)
(*   - SynthesizeStream    (src/agent/src/plugins/tts.py)                  *)
(*   - VADEngine           (src/agent/src/services/vad.py)                 *)
(*                                                                         *)
(* Energies are RMS values in thousandths (0.025 is 25).  A chunk is named *)
(* by its arrival number, so that order, loss and duplication show.  The   *)
(* decoder (sherpa-onnx) is opaque: its stream is the sequence of chunks   *)
(* it was fed, and get_result answers any text of Texts.  The resampler is *)
(* opaque too: a chunk keeps its name through it.  LocalASR's debug        *)
(* recording (_audio_buffer, _save_debug_audio) mirrors the stream and     *)
(* decides nothing; it is left out.                                        *)
(***************************************************************************)
EXTENDS Integers, Sequences, FiniteSets, TLC

(***************************************************************************)
(* Program constants.                                                      *)
(***************************************************************************)
\* asr.py:35
TARGET_SAMPLE_RATE == 16000
\* asr.py:38, 0.025 in thousandths
VAD_START_THRESHOLD == 25
\* asr.py:39, 0.015 in thousandths
VAD_END_THRESHOLD == 15
\* asr.py:275 and 281: a float32 sample is an int16 sample over 32768
Int16Scale == 32768
\* recorder.py:30
BYTES_PER_SAMPLE == 2
\* tts.py:28-34
PROTOCOL_VERSION == 1
HEADER_SIZE == 1
MESSAGE_TYPE_FULL_CLIENT == 1
MESSAGE_TYPE_AUDIO_ONLY == 11
MESSAGE_TYPE_ERROR == 15
MESSAGE_SERIALIZATION_JSON == 1
MESSAGE_COMPRESSION_GZIP == 1

(***************************************************************************)
(* Bounds of the model.  asr.py:40 and asr.py:45 set both counts to 25;    *)
(* the model runs them scaled down, and every property is stated in terms  *)
(* of the names, not of the values.                                        *)
(***************************************************************************)
SILENCE_FRAMES_FOR_ENDPOINT == 3
WINDOW_BUFFER_SIZE == 3
\* chunks pushed to one recognizer in a run
MaxChunks == 8
\* items pushed to one speech stream's input channel in a run
MaxFrames == 4
\* bytes of a frame handed to audio_frame_to_float32
MaxFrameBytes == 8
\* recorder.py:31 sets 480 samples per frame; the model runs it scaled down
SAMPLES_PER_FRAME == 1
\* start() calls on one recorder in a run
MaxStarts == 2
\* bytes handed to each channel in a run
MaxChannelBytes == 4
\* bytes of a buffer handed to _parse_response
MaxResponseBytes == 13
\* messages the transport delivers to one synthesize_stream call
MaxMessages == 4
\* speech streams created from one LocalSTT in a run
MaxStreams == 2
\* frames received by all the streams of one LocalSTT in a run
MaxSttFrames == 2
\* sentence streams sent on one SynthesizeStream's segments channel
MaxSentences == 3
\* chunks one synthesis request of a SynthesizeStream yields
MaxSegChunks == 2
\* frames handed to one VADEngine in a run
MaxVadFrames == 8

\* RMS values a chunk may have: below the end threshold, at it (so between
\* the two), at the start threshold and above it.
Energies == {10, VAD_END_THRESHOLD, VAD_START_THRESHOLD, 30}
\* Sample rates of incoming frames.
SampleRates == {TARGET_SAMPLE_RATE, 48000}
\* Byte values of a frame's data: they give the int16 samples 0, 128, 255,
\* -1, -256, -32768, -32513, ...
ByteValues == {0, 128, 255}
\* Texts the decoder may answer: sequences of characters, " " is whitespace.
Texts == {<<>>, <<" ">>, <<"a">>, <<"b", " ">>}

VARIABLES
  asr,      \* the LocalASR instance's fields
  n,        \* chunks pushed so far; the next chunk is n + 1
  call,     \* the last call on the recognizer: its inputs, pre-state, outputs
  quiet,    \* every chunk since construction or the last reset() was below START
  idleRun,  \* chunks below START received since Idle with an empty lookback
  lowRun,   \* consecutive chunks below END received while Speaking
  resetRun, \* consecutive reset() calls, counted up to 2
  sinceClear, \* chunks received since the lookback was last cleared
  lowTotal, \* chunks below END received while Speaking, in this utterance
  inputCh,  \* LocalSpeechStream._input_ch: the items not yet received
  closed,   \* the input channel was closed by the producer
  pc,       \* where _run is: "recv", "await", "done" or "crashed"
  cur,      \* the frame _run awaits the executor for
  jobs,     \* frames submitted to the executor and not yet returned
  running,  \* frames an executor thread is processing
  futs,     \* completed executor futures not yet taken by _run
  eventCh,  \* LocalSpeechStream._event_ch: the events sent, in order
  arrived,  \* every item pushed to the input channel, in order
  consumed, \* the items _run received, in order
  handed,   \* frames whose processing started, in order
  returned, \* frames whose processing ended, in order
  raisedIn, \* frames whose conversion, resampling or decoding raised
  conv,     \* the last audio_frame_to_float32 call: its inputs and its output
  rec,      \* the AudioRecorder instance's fields
  files,    \* the containers written so far: files[p] is the PCM data of path p
  tasks,    \* the periodic flush tasks created so far: tasks[t] is task t's state
  stopPc,   \* where stop() is: "idle", "joining" the task, or "flushing"
  stopTask, \* the task the suspended stop() cancelled, 0 when it cancelled none
  offered,  \* bytes handed to write_user_frame / write_agent_frame so far
  life,     \* the last of start() and stop() that was called: "new" before any
  rcall,    \* the last recorder operation: its name, the size of its payload,
            \* what it returned, and which of start() and stop() had been
            \* called last before it
  resp,     \* the last _parse_response call: its input and what it returned
  req,      \* the last _build_request call: its arguments and the frame built
  stt,      \* one LocalSTT: the fields of its LocalASR, where each stream made
            \* from it is, the streams whose process_audio call is in
            \* progress, the frames received so far, the stream whose chunk
            \* started the utterance under way, and the last operation on the
            \* LocalASR with the stream it came from
  fl,       \* the _flush_buffers call in progress, if any: who called it,
            \* the frames it counted and the frames it has appended
  made,     \* the last construction: the class, what it was given and
            \* found, and whether it raised or returned an instance
  seg,      \* one SynthesizeStream: where _tokenize_input and _run_segments
            \* are, the sentence streams on the segments channel, and the
            \* calls made on the emitter and on the client, in order
  vad,      \* one VADEngine: its fields, the frames it was given and what
            \* process_frame returned for each
  tts,      \* one synthesize_stream call: where it is, the messages the
            \* transport delivered and it has not read, those it read, and
            \* the chunks it yielded, each with the number of its message
  sess      \* the recording session: the path the last start() returned, the
            \* bytes each channel accepted since the last start() that opened
            \* a container, whether every accepted write was whole frames,
            \* whether every one was a user/agent pair, and whether some
            \* start() ran while a stop() was suspended

asrVars ==
  <<asr, n, call, quiet, idleRun, lowRun, resetRun, sinceClear, lowTotal>>

asrGhosts ==
  <<n, call, quiet, idleRun, lowRun, resetRun, sinceClear, lowTotal>>

strVars ==
  <<inputCh, closed, pc, cur, jobs, running, futs, eventCh, arrived, consumed,
    handed, returned, raisedIn>>

recVars == <<rec, files, tasks, stopPc, stopTask, offered, life, rcall, sess>>

codecVars == <<resp, tts, req>>

ctorVars == <<made>>

sttVars == <<stt>>

flushVars == <<fl>>

segVars == <<seg>>

vadVars == <<vad>>

restVars == <<ctorVars, sttVars, flushVars, segVars, vadVars>>

vars == <<asrVars, strVars, conv, recVars, codecVars, restVars>>

(***************************************************************************)
(* LocalASR                                                                *)
(***************************************************************************)
NoResult == [kind |-> "none", text |-> <<>>]

IsSpace(ch) == ch = " "

RECURSIVE LStrip(_)
LStrip(t) == IF t # <<>> /\ IsSpace(Head(t)) THEN LStrip(Tail(t)) ELSE t

RECURSIVE RStrip(_)
RStrip(t) ==
  IF t # <<>> /\ IsSpace(t[Len(t)]) THEN RStrip(SubSeq(t, 1, Len(t) - 1)) ELSE t

\* str.strip() of the decoder's text
Strip(t) == RStrip(LStrip(t))

\* LocalASR.__init__, lines 81-94
AsrNew ==
  [stream |-> <<>>,
   last_partial_text |-> <<>>,
   resamplers |-> {},
   is_speaking |-> FALSE,
   silence_frame_count |-> 0,
   max_rms |-> 0,
   window_buffer |-> <<>>]

\* variant of Reset: the lookback is cleared too
ResetKeepsNothing(s) ==
  [s EXCEPT !.stream = <<>>, !.last_partial_text = <<>>, !.is_speaking = FALSE,
            !.silence_frame_count = 0, !.max_rms = 0, !.window_buffer = <<>>]

\* variant of Reset: the lookback loses its oldest chunk
ResetTrimsLookback(s) ==
  [s EXCEPT !.stream = <<>>, !.last_partial_text = <<>>, !.is_speaking = FALSE,
            !.silence_frame_count = 0, !.max_rms = 0,
            !.window_buffer = IF @ = <<>> THEN @ ELSE Tail(@)]

\* LocalASR.reset: a fresh stream, the counters zeroed, the lookback kept
Reset(s) ==
  [s EXCEPT !.stream = <<>>, !.last_partial_text = <<>>, !.is_speaking = FALSE,
            !.silence_frame_count = 0, !.max_rms = 0]

\* LocalASR._get_resampler: the cache after a chunk of this rate
ResamplersAfter(s, rate) ==
  IF rate = TARGET_SAMPLE_RATE THEN s.resamplers ELSE s.resamplers \cup {rate}

\* variant of IsVoiceActive: the end threshold also starts speech
IsVoiceActiveOneThreshold(s, rms) == rms >= VAD_END_THRESHOLD

\* variant of IsVoiceActive: the start threshold also continues speech
IsVoiceActiveStartOnly(s, rms) == rms >= VAD_START_THRESHOLD

\* the two-threshold decision, lines 178-183
IsVoiceActive(s, rms) ==
  IF ~s.is_speaking THEN rms >= VAD_START_THRESHOLD ELSE rms >= VAD_END_THRESHOLD

\* variant of DequeAppend: a full buffer refuses the new chunk
DequeAppendDropsNewest(buf, c) ==
  IF Len(buf) >= WINDOW_BUFFER_SIZE THEN buf ELSE Append(buf, c)

\* collections.deque(maxlen=WINDOW_BUFFER_SIZE).append
DequeAppend(buf, c) ==
  IF Len(buf) >= WINDOW_BUFFER_SIZE THEN Append(Tail(buf), c) ELSE Append(buf, c)

\* variant of SilenceAfterVoice: a chunk with voice leaves the count as it is
SilenceAfterVoiceKept(count) == count

\* line 211: a chunk with voice sets the silence count to 0
SilenceAfterVoice(count) == 0

\* variant of EndpointReached: one silent chunk more is needed
EndpointReachedLate(count) == count > SILENCE_FRAMES_FOR_ENDPOINT

\* line 228
EndpointReached(count) == count >= SILENCE_FRAMES_FOR_ENDPOINT

\* variant of FinalResult: the text is tested before it is stripped
FinalResultUnstripped(raw) ==
  IF raw # <<>> THEN [kind |-> "final", text |-> Strip(raw)] ELSE NoResult

\* lines 229, 239-242: the final result for the decoder's text
FinalResult(raw) ==
  IF Strip(raw) # <<>> THEN [kind |-> "final", text |-> Strip(raw)] ELSE NoResult

\* variant of InterimWanted: silent chunks report interim results too
InterimOnEveryChunk(active, speaking) == speaking

\* line 245: the condition under which an interim result is looked for
InterimWanted(active, speaking) == active /\ speaking

\* variant of LookbackWanted: every chunk goes to the lookback
LookbackAlways(s) == TRUE

\* line 186: a chunk goes to the lookback only while not speaking
LookbackWanted(s) == ~s.is_speaking

(***************************************************************************)
(* LocalASR.process_audio, steps 1 to 6a, on chunk c (after resampling) of *)
(* energy rms: the fields after step 5 (s5) and after the silence count of *)
(* step 6 (s6), and the chunks handed to accept_waveform, in order.        *)
(***************************************************************************)
Gate(s, c, rate, rms) ==
  LET active == IsVoiceActive(s, rms)
      \* step 3, lines 186-187
      w1 == IF LookbackWanted(s) THEN DequeAppend(s.window_buffer, c)
            ELSE s.window_buffer
      \* step 4, lines 195-213
      onset == active /\ ~s.is_speaking
      flushed == IF onset THEN w1 ELSE <<>>
      speaking == IF active THEN TRUE ELSE s.is_speaking
      silence == IF active THEN SilenceAfterVoice(s.silence_frame_count)
                 ELSE s.silence_frame_count
      \* step 5, lines 216-221
      accepted == flushed \o (IF speaking THEN <<c>> ELSE <<>>)
      s5 == [s EXCEPT !.resamplers = ResamplersAfter(s, rate),
                      !.window_buffer = IF onset THEN <<>> ELSE w1,
                      !.is_speaking = speaking,
                      !.silence_frame_count = silence,
                      !.max_rms = IF active /\ rms > s.max_rms THEN rms
                                  ELSE s.max_rms,
                      !.stream = s.stream \o accepted]
      \* step 6, lines 224-225
      silent == ~active /\ speaking
  IN  [active |-> active, onset |-> onset, w1 |-> w1, speaking |-> speaking,
       accepted |-> accepted, s5 |-> s5, silent |-> silent,
       s6 |-> IF silent
              THEN [s5 EXCEPT !.silence_frame_count = silence + 1] ELSE s5]

(***************************************************************************)
(* LocalASR.process_audio when get_result would answer raw.  The outcome:  *)
(* the fields after the call, the result returned, the chunks handed to    *)
(* accept_waveform, and whether get_result was called.                     *)
(***************************************************************************)
ProcessAudio(s, c, rate, rms, raw) ==
  LET g == Gate(s, c, rate, rms)
      text == Strip(raw)
  IN  IF g.silent /\ EndpointReached(g.s6.silence_frame_count)
      \* lines 228-242
      THEN [st |-> Reset(g.s6), result |-> FinalResult(raw),
            accepted |-> g.accepted, called |-> TRUE]
      ELSE IF InterimWanted(g.active, g.speaking)
      \* step 7, lines 245-249
      THEN IF text # <<>> /\ text # g.s6.last_partial_text
           THEN [st |-> [g.s6 EXCEPT !.last_partial_text = text],
                 result |-> [kind |-> "interim", text |-> text],
                 accepted |-> g.accepted, called |-> TRUE]
           ELSE [st |-> g.s6, result |-> NoResult,
                 accepted |-> g.accepted, called |-> TRUE]
      ELSE [st |-> g.s6, result |-> NoResult,
            accepted |-> g.accepted, called |-> FALSE]

NoCall ==
  [op |-> "none", chunk |-> 0, rms |-> 0, hyp |-> <<>>, pre |-> AsrNew,
   result |-> NoResult, accepted |-> <<>>, called |-> FALSE, run |-> <<>>,
   low |-> 0]

AsrInit ==
  /\ asr = AsrNew
  /\ n = 0
  /\ call = NoCall
  /\ quiet = TRUE
  /\ idleRun = <<>>
  /\ lowRun = 0
  /\ resetRun = 0
  /\ sinceClear = <<>>
  /\ lowTotal = 0

\* the owner pushes the next chunk: LocalASR.process_audio
Push ==
  /\ n < MaxChunks
  /\ \E rate \in SampleRates, rms \in Energies, raw \in Texts :
       LET c == n + 1
           r == ProcessAudio(asr, c, rate, rms, raw)
           low == IF asr.is_speaking /\ rms < VAD_END_THRESHOLD
                  THEN lowRun + 1 ELSE 0
       IN  /\ asr' = r.st
           /\ n' = c
           /\ call' = [op |-> "process_audio", chunk |-> c, rms |-> rms,
                       hyp |-> raw, pre |-> asr, result |-> r.result,
                       accepted |-> r.accepted, called |-> r.called,
                       run |-> idleRun, low |-> low]
           /\ quiet' = (quiet /\ rms < VAD_START_THRESHOLD)
           /\ idleRun' = IF ~asr.is_speaking /\ rms < VAD_START_THRESHOLD
                         THEN Append(idleRun, c) ELSE <<>>
           /\ lowRun' = IF r.st.is_speaking THEN low ELSE 0
           /\ resetRun' = 0
           /\ sinceClear' = IF ~asr.is_speaking /\ rms >= VAD_START_THRESHOLD
                            THEN <<>> ELSE Append(sinceClear, c)
           /\ lowTotal' = IF ~r.st.is_speaking THEN 0
                          ELSE IF asr.is_speaking /\ rms < VAD_END_THRESHOLD
                          THEN lowTotal + 1 ELSE lowTotal
  /\ UNCHANGED <<strVars, conv, recVars, codecVars, restVars>>

\* the owner calls LocalASR.reset()
ResetCall ==
  /\ asr' = Reset(asr)
  /\ call' = [NoCall EXCEPT !.op = "reset", !.pre = asr]
  /\ quiet' = TRUE
  /\ idleRun' = IF asr.is_speaking THEN <<>> ELSE idleRun
  /\ lowRun' = 0
  /\ resetRun' = IF resetRun < 2 THEN resetRun + 1 ELSE 2
  /\ lowTotal' = 0
  /\ UNCHANGED <<n, sinceClear, strVars, conv, recVars, codecVars, restVars>>

NextASR == Push \/ ResetCall

(***************************************************************************)
(* LocalSpeechStream (plugins/stt.py)                                      *)
(***************************************************************************)
\* where conversion, resampling or decoding of a chunk may raise
RaisePoints == {"none", "convert", "resample", "accept", "decode", "get_result"}

\* whether process_audio reaches the call that raises at this point
CanRaise(s, c, rate, rms, point) ==
  LET g == Gate(s, c, rate, rms)
  IN  CASE point = "none" -> TRUE
        [] point = "convert" -> TRUE
        [] point = "resample" -> rate # TARGET_SAMPLE_RATE
        [] point = "accept" -> g.speaking
        [] point = "decode" -> g.speaking
        [] point = "get_result" ->
             \/ g.silent /\ EndpointReached(g.s6.silence_frame_count)
             \/ InterimWanted(g.active, g.speaking)

\* the recognizer's fields when process_audio raises at this point: what the
\* statements before it have assigned
ProcessAudioRaising(s, c, rate, rms, point) ==
  LET g == Gate(s, c, rate, rms)
  IN  CASE point = "convert" -> s
        [] point = "resample" ->
             [s EXCEPT !.resamplers = ResamplersAfter(s, rate)]
        [] point = "accept" ->
             IF g.onset
             \* line 206, on the first buffered chunk
             THEN [s EXCEPT !.resamplers = ResamplersAfter(s, rate),
                            !.window_buffer = g.w1]
             \* line 218
             ELSE [g.s5 EXCEPT !.stream = s.stream]
        [] point = "decode" -> g.s5
        [] point = "get_result" -> g.s6

\* variant of SyncReturn: no try/except, the exception reaches the future
SyncReturnPropagates(raisedInside, result) ==
  [raised |-> raisedInside, result |-> IF raisedInside THEN NoResult ELSE result]

\* _process_audio_sync's try/except, lines 152-163: what the executor future
\* completes with
SyncReturn(raisedInside, result) ==
  [raised |-> FALSE, result |-> IF raisedInside THEN NoResult ELSE result]

\* _process_audio_sync, lines 148-163
ProcessAudioSync(s, c, rate, rms, raw, point) ==
  IF point = "none"
  THEN LET r == ProcessAudio(s, c, rate, rms, raw)
       IN  [st |-> r.st, fut |-> SyncReturn(FALSE, r.result)]
  ELSE [st |-> ProcessAudioRaising(s, c, rate, rms, point),
        fut |-> SyncReturn(TRUE, NoResult)]

\* variant of AfterSubmit: the future is not awaited
AfterSubmitNoAwait == "recv"

\* line 91: _run awaits the executor future before it receives again
AfterSubmit == "await"

\* variant of OnRunException: the exception leaves _run
OnRunExceptionStops == "crashed"

\* lines 115-116: an exception inside the loop body is logged, the loop goes on
OnRunException == "recv"

\* lines 95-107: the event for a result
EventOf(id, result) ==
  [type |-> IF result.kind = "final" THEN "FINAL_TRANSCRIPT"
            ELSE "INTERIM_TRANSCRIPT",
   text |-> result.text, frame |-> id]

\* LocalSpeechStream.__init__, lines 70-74
StrInit ==
  /\ inputCh = <<>>
  /\ closed = FALSE
  /\ pc = "recv"
  /\ cur = 0
  /\ jobs = {}
  /\ running = {}
  /\ futs = {}
  /\ eventCh = <<>>
  /\ arrived = <<>>
  /\ consumed = <<>>
  /\ handed = <<>>
  /\ returned = <<>>
  /\ raisedIn = {}

\* the producer pushes an item: an audio frame, a flush sentinel or None
PushFrame ==
  /\ ~closed
  /\ Len(arrived) < MaxFrames
  /\ \E kind \in {"audio", "flush", "none"} :
       LET item == [id |-> Len(arrived) + 1, kind |-> kind]
       IN  /\ inputCh' = Append(inputCh, item)
           /\ arrived' = Append(arrived, item)
  /\ UNCHANGED <<asrGhosts, conv, recVars, codecVars, restVars, asr, closed, pc, cur, jobs, running, futs, eventCh, consumed,
                 handed, returned, raisedIn>>

\* the producer closes the input channel
EndInput ==
  /\ ~closed
  /\ closed' = TRUE
  /\ UNCHANGED <<asrGhosts, conv, recVars, codecVars, restVars, asr, inputCh, pc, cur, jobs, running, futs, eventCh, arrived,
                 consumed, handed, returned, raisedIn>>

\* _run, lines 80-93: receive the next item; an audio frame is submitted to
\* the executor
Recv ==
  /\ pc = "recv"
  /\ inputCh # <<>>
  /\ LET item == Head(inputCh)
     IN  /\ inputCh' = Tail(inputCh)
         /\ consumed' = Append(consumed, item)
         /\ CASE item.kind = "flush" -> UNCHANGED <<pc, cur, jobs>>
              [] item.kind = "none" -> pc' = "done" /\ UNCHANGED <<cur, jobs>>
              [] item.kind = "audio" ->
                   /\ pc' = AfterSubmit
                   /\ cur' = item.id
                   /\ jobs' = jobs \cup {item.id}
  /\ UNCHANGED <<asrGhosts, conv, recVars, codecVars, restVars, asr, closed, running, futs, eventCh, arrived, handed,
                 returned, raisedIn>>

\* _run, line 80: the channel is closed and drained, the loop ends
RecvClosed ==
  /\ pc = "recv"
  /\ inputCh = <<>>
  /\ closed
  /\ pc' = "done"
  /\ UNCHANGED <<asrGhosts, conv, recVars, codecVars, restVars, asr, inputCh, closed, cur, jobs, running, futs, eventCh,
                 arrived, consumed, handed, returned, raisedIn>>

\* an executor thread starts _process_audio_sync on a submitted frame
ExecStart ==
  /\ \E id \in jobs \ running :
       /\ running' = running \cup {id}
       /\ handed' = Append(handed, id)
  /\ UNCHANGED <<asrGhosts, conv, recVars, codecVars, restVars, asr, inputCh, closed, pc, cur, jobs, futs, eventCh, arrived,
                 consumed, returned, raisedIn>>

\* the executor thread ends _process_audio_sync, lines 148-163
ExecReturn ==
  /\ \E id \in running, rate \in SampleRates, rms \in Energies, raw \in Texts,
        point \in RaisePoints :
       /\ CanRaise(asr, id, rate, rms, point)
       /\ LET r == ProcessAudioSync(asr, id, rate, rms, raw, point)
          IN  /\ asr' = r.st
              /\ futs' = futs \cup {[id |-> id, raised |-> r.fut.raised,
                                     result |-> r.fut.result]}
       /\ running' = running \ {id}
       /\ jobs' = jobs \ {id}
       /\ returned' = Append(returned, id)
       /\ raisedIn' = IF point = "none" THEN raisedIn ELSE raisedIn \cup {id}
  /\ UNCHANGED <<asrGhosts, conv, recVars, codecVars, restVars, inputCh, closed, pc, cur, eventCh, arrived, consumed, handed>>

\* _run, lines 91-116: the awaited future is done; send the event
Resume ==
  /\ pc = "await"
  /\ \E f \in futs :
       /\ f.id = cur
       /\ futs' = futs \ {f}
       /\ IF f.raised
          THEN pc' = OnRunException /\ UNCHANGED eventCh
          ELSE IF f.result.kind # "none" /\ Strip(f.result.text) # <<>>
          THEN /\ eventCh' = Append(eventCh, EventOf(f.id, f.result))
               \* lines 112-113: _handle_transcript may raise
               /\ \E transcriptRaises \in BOOLEAN :
                    pc' = IF transcriptRaises THEN OnRunException ELSE "recv"
          ELSE pc' = "recv" /\ UNCHANGED eventCh
  /\ UNCHANGED <<asrGhosts, conv, recVars, codecVars, restVars, asr, inputCh, closed, cur, jobs, running, arrived, consumed,
                 handed, returned, raisedIn>>

NextStream ==
  \/ PushFrame
  \/ EndInput
  \/ Recv
  \/ RecvClosed
  \/ ExecStart
  \/ ExecReturn
  \/ Resume

(***************************************************************************)
(* LocalASR.audio_frame_to_float32 (asr.py:253-281).  A float32 sample is  *)
(* modelled by its numerator over Int16Scale: the division is exact.       *)
(***************************************************************************)
\* one little-endian int16 sample, as np.frombuffer(dtype=np.int16) reads it
Int16Of(lo, hi) ==
  LET u == lo + 256 * hi IN IF u >= Int16Scale THEN u - 2 * Int16Scale ELSE u

\* np.frombuffer(frame_data, dtype=np.int16) on an even number of bytes
FromBuffer(data) ==
  [i \in 1..(Len(data) \div 2) |-> Int16Of(data[2 * i - 1], data[2 * i])]

\* variant of Channel0: the per-sample mean of both channels
MeanOfChannels(samples) ==
  [i \in 1..(Len(samples) \div 2) |->
     (samples[2 * i - 1] + samples[2 * i]) \div 2]

\* lines 268-273: reshape(-1, 2)[:, 0]
Channel0(samples) == [i \in 1..(Len(samples) \div 2) |-> samples[2 * i - 1]]

\* the result: numerators over Int16Scale
AudioFrameToFloat32(frame_data, num_channels) ==
  LET \* lines 260-261
      data == IF Len(frame_data) % 2 # 0
              THEN SubSeq(frame_data, 1, Len(frame_data) - 1) ELSE frame_data
      audio_int16 == FromBuffer(data)
  IN  IF num_channels = 2 /\ Len(audio_int16) % 2 = 0
      THEN Channel0(audio_int16)
      \* mono, or reshape raised (an odd number of samples): every sample
      ELSE audio_int16

\* no frame to convert
ConvInit == conv = [done |-> FALSE, data |-> <<>>, channels |-> 1, out |-> <<>>]

\* a frame to convert: any data of at most MaxFrameBytes bytes, 1 or 2 channels
ConvInputs ==
  \E len \in 0..MaxFrameBytes, ch \in {1, 2} :
    \E data \in [1..len -> ByteValues] :
      conv = [done |-> FALSE, data |-> data, channels |-> ch, out |-> <<>>]

\* the caller converts the frame's data
Convert ==
  /\ ~conv.done
  /\ conv' = [conv EXCEPT !.done = TRUE,
                          !.out = AudioFrameToFloat32(conv.data, conv.channels)]
  /\ UNCHANGED <<asrVars, strVars, recVars, codecVars, restVars>>

NextConv == Convert

(***************************************************************************)
(* AudioRecorder (services/recorder.py).  A byte written to the user       *)
(* channel is named by its number on that channel (1, 2, ...), a byte      *)
(* written to the agent channel by minus its number (-1, -2, ...), a       *)
(* silence byte is 0.                                                      *)
(* A path is the number of the start() that made it; an open container is  *)
(* named by its path, 0 is None.  A task is named by its number, 0 is None.*)
(***************************************************************************)
\* recorder.py:188
FrameSize == SAMPLES_PER_FRAME * BYTES_PER_SAMPLE

\* variant of SILENCE_FRAME: padding that is not silence
NoiseFrame == [i \in 1..FrameSize |-> 255]

\* recorder.py:34
SILENCE_FRAME == [i \in 1..FrameSize |-> 0]

\* AudioRecorder.__init__, lines 54-68
RecNew ==
  [wav_file |-> 0,
   file_path |-> 0,
   is_recording |-> FALSE,
   user_buffer |-> <<>>,
   agent_buffer |-> <<>>,
   user_frame_count |-> 0,
   agent_frame_count |-> 0,
   synced_frame_count |-> 0,
   flush_task |-> 0]

\* variant of InterleaveStereo: the channels change places
InterleaveSwapped(left, right) ==
  LET nl == Len(left) \div BYTES_PER_SAMPLE
  IN  [k \in 1..(2 * nl * BYTES_PER_SAMPLE) |->
         LET slot == (k - 1) \div BYTES_PER_SAMPLE
             b == (k - 1) % BYTES_PER_SAMPLE
             at == (slot \div 2) * BYTES_PER_SAMPLE + b + 1
         IN  IF slot % 2 = 0 THEN right[at] ELSE left[at]]

\* _interleave_stereo, lines 230-243: the samples of both channels alternate
InterleaveStereo(left, right) ==
  LET nl == Len(left) \div BYTES_PER_SAMPLE
      nr == Len(right) \div BYTES_PER_SAMPLE
      min_len == IF nl < nr THEN nl ELSE nr
  IN  [k \in 1..(2 * min_len * BYTES_PER_SAMPLE) |->
         LET slot == (k - 1) \div BYTES_PER_SAMPLE
             b == (k - 1) % BYTES_PER_SAMPLE
             at == (slot \div 2) * BYTES_PER_SAMPLE + b + 1
         IN  IF slot % 2 = 0 THEN left[at] ELSE right[at]]

\* variant of Drop: the bytes taken stay in the buffer
DropNothing(buf, k) == buf

\* lines 202 and 209: del buffer[:frame_size]
Drop(buf, k) == SubSeq(buf, k + 1, Len(buf))

\* variant of SyncedAfter: a frame padded with silence is not counted
SyncedAfterPairsOnly(count, hasLeft, hasRight) ==
  IF hasLeft /\ hasRight THEN count + 1 ELSE count

\* line 216: the counter goes up by one for every stereo frame appended
SyncedAfter(count, hasLeft, hasRight) == count + 1

RECURSIVE FlushLoop(_, _, _)
\* the loop of _flush_buffers, lines 198-216: todo frames are still to be
\* written; r holds the fields, data the container's contents
FlushLoop(todo, r, data) ==
  IF todo = 0 THEN [rec |-> r, data |-> data]
  ELSE LET hasLeft == Len(r.user_buffer) >= FrameSize
           hasRight == Len(r.agent_buffer) >= FrameSize
           left_data == IF hasLeft THEN SubSeq(r.user_buffer, 1, FrameSize)
                        ELSE SILENCE_FRAME
           right_data == IF hasRight THEN SubSeq(r.agent_buffer, 1, FrameSize)
                         ELSE SILENCE_FRAME
       IN  FlushLoop(todo - 1,
             [r EXCEPT
                !.user_buffer = IF hasLeft THEN Drop(@, FrameSize) ELSE @,
                !.agent_buffer = IF hasRight THEN Drop(@, FrameSize) ELSE @,
                !.synced_frame_count = SyncedAfter(@, hasLeft, hasRight)],
             data \o InterleaveStereo(left_data, right_data))

\* variant of FramesToWrite: the user channel decides
FramesToWriteUserOnly(user_frames, agent_frames) == user_frames

\* variant of FramesToWrite: the shorter channel decides
FramesToWriteMin(user_frames, agent_frames) ==
  IF user_frames < agent_frames THEN user_frames ELSE agent_frames

\* line 193: max(user_frames, agent_frames)
FramesToWrite(user_frames, agent_frames) ==
  IF user_frames > agent_frames THEN user_frames ELSE agent_frames

\* _flush_buffers, lines 179-216: the fields and the containers after it
FlushBuffers(r, fs) ==
  IF r.wav_file = 0 THEN [rec |-> r, files |-> fs]
  ELSE LET user_frames == Len(r.user_buffer) \div FrameSize
           agent_frames == Len(r.agent_buffer) \div FrameSize
           frames_to_write == FramesToWrite(user_frames, agent_frames)
           done == FlushLoop(frames_to_write, r, fs[r.wav_file])
       IN  [rec |-> done.rec,
            files |-> [fs EXCEPT ![r.wav_file] = done.data]]

\* variant of WriteAllowed: the recording flag is not tested
WriteAlways(r) == TRUE

\* lines 150-151 and 165-166: a write takes effect only while recording
WriteAllowed(r) == r.is_recording

\* write_user_frame, lines 143-156
WriteUserFrame(r, pcm_data) ==
  IF ~WriteAllowed(r) THEN r
  ELSE [r EXCEPT !.user_buffer = @ \o pcm_data,
                 !.user_frame_count = @ + Len(pcm_data) \div FrameSize]

\* write_agent_frame, lines 158-171
WriteAgentFrame(r, pcm_data) ==
  IF ~WriteAllowed(r) THEN r
  ELSE [r EXCEPT !.agent_buffer = @ \o pcm_data,
                 !.agent_frame_count = @ + Len(pcm_data) \div FrameSize]

\* the bytes first+1 .. first+len of the user channel
Payload(first, len) == [i \in 1..len |-> first + i]

\* the bytes first+1 .. first+len of the agent channel
AgentPayload(first, len) == [i \in 1..len |-> 0 - (first + i)]

RecInit ==
  /\ rec = RecNew
  /\ files = <<>>
  /\ tasks = <<>>
  /\ stopPc = "idle"
  /\ offered = [user |-> 0, agent |-> 0]
  /\ life = "new"
  /\ stopTask = 0
  /\ rcall = [op |-> "none", arg |-> 0, ret |-> 0, life |-> "new"]
  /\ sess = [given |-> 0, user |-> <<>>, agent |-> <<>>, whole |-> TRUE,
             pairs |-> TRUE, overlapped |-> FALSE]

Called(op, ret) == rcall' = [op |-> op, arg |-> 0, ret |-> ret, life |-> life]

Written(op, len) == rcall' = [op |-> op, arg |-> len, ret |-> 0, life |-> life]

others == <<asrVars, strVars, conv, codecVars, restVars>>

\* start(), lines 70-106
Start ==
  /\ Len(files) < MaxStarts
  /\ IF rec.is_recording
     THEN /\ Called("start", rec.file_path)
          /\ sess' = [sess EXCEPT !.given = rec.file_path,
                                  !.overlapped = @ \/ stopPc # "idle"]
          /\ UNCHANGED <<rec, files, tasks>>
     ELSE LET path == Len(files) + 1
              task == Len(tasks) + 1
          IN  /\ files' = Append(files, <<>>)
              /\ tasks' = Append(tasks, "created")
              /\ rec' = [wav_file |-> path,
                         file_path |-> path,
                         is_recording |-> TRUE,
                         user_buffer |-> <<>>,
                         agent_buffer |-> <<>>,
                         user_frame_count |-> 0,
                         agent_frame_count |-> 0,
                         synced_frame_count |-> 0,
                         flush_task |-> task]
              /\ Called("start", path)
              /\ sess' = [given |-> path, user |-> <<>>, agent |-> <<>>,
                          whole |-> TRUE, pairs |-> TRUE,
                          overlapped |-> sess.overlapped \/ stopPc # "idle"]
  /\ life' = "started"
  /\ UNCHANGED <<stopPc, stopTask, offered, others>>

\* Task.cancel(): a task that has not ended ends at its next step
Cancel(ts, t) ==
  IF ts[t] = "ended" THEN ts ELSE [ts EXCEPT ![t] = "cancelling"]

\* stop(), lines 115-116: not recording, None is returned (also to a call
\* made while an earlier stop() is suspended)
StopIdle ==
  /\ ~rec.is_recording
  /\ Called("stop", 0)
  /\ life' = "stopped"
  /\ UNCHANGED <<rec, files, tasks, stopPc, stopTask, offered, sess, others>>

\* variant of FlagAfterStop: stop() leaves the recording flag set
FlagAfterStopKept == TRUE

\* stop(), line 118
FlagAfterStop == FALSE

\* stop(), lines 118-124: the flag is cleared, the task cancelled and awaited
StopBegin ==
  /\ stopPc = "idle"
  /\ rec.is_recording
  /\ rec' = [rec EXCEPT !.is_recording = FlagAfterStop]
  /\ IF rec.flush_task # 0
     THEN /\ tasks' = Cancel(tasks, rec.flush_task)
          /\ stopPc' = "joining"
          /\ stopTask' = rec.flush_task
     ELSE /\ UNCHANGED <<tasks, stopTask>>
          /\ stopPc' = "flushing"
  /\ Called("stop_begin", 0)
  /\ life' = "stopped"
  /\ UNCHANGED <<files, offered, sess, others>>

\* variant of Joined: stop() goes on without waiting for the task
JoinedAtOnce(ts, t) == TRUE

\* stop(), lines 123-126: await self._flush_task returns (by CancelledError)
\* when the task has ended
Joined(ts, t) == ts[t] = "ended"

\* stop(), lines 124-127: the awaited task has ended
StopJoined ==
  /\ stopPc = "joining"
  /\ Joined(tasks, stopTask)
  /\ rec' = [rec EXCEPT !.flush_task = 0]
  /\ stopPc' = "flushing"
  /\ Called("stop_joined", 0)
  /\ UNCHANGED <<files, tasks, stopTask, offered, life, sess, others>>

\* stop(), lines 130-141: the final flush, the close, the path returned
StopFinish ==
  /\ stopPc = "flushing"
  /\ LET f == FlushBuffers(rec, files)
     IN  /\ rec' = [f.rec EXCEPT !.wav_file = 0, !.file_path = 0]
         /\ files' = f.files
  /\ stopPc' = "idle"
  /\ stopTask' = 0
  /\ Called("stop", rec.file_path)
  /\ UNCHANGED <<tasks, offered, life, sess, others>>

\* _periodic_flush, line 175, first step of a created task
TaskBegins ==
  /\ \E t \in 1..Len(tasks) :
       /\ tasks[t] = "created"
       /\ tasks' = [tasks EXCEPT ![t] = IF rec.is_recording THEN "sleeping"
                                        ELSE "ended"]
  /\ Called("task_begins", 0)
  /\ UNCHANGED <<rec, files, stopPc, stopTask, offered, life, sess, others>>

\* _periodic_flush, lines 176-177 and 175: the sleep is over, flush, loop
PeriodicFlush ==
  /\ \E t \in 1..Len(tasks) :
       /\ tasks[t] = "sleeping"
       /\ tasks' = [tasks EXCEPT ![t] = IF rec.is_recording THEN "sleeping"
                                        ELSE "ended"]
  /\ LET f == FlushBuffers(rec, files)
     IN  /\ rec' = f.rec
         /\ files' = f.files
         \* noted with the call: the stereo frames it appended
         /\ Written("flush", f.rec.synced_frame_count - rec.synced_frame_count)
  /\ UNCHANGED <<stopPc, stopTask, offered, life, sess, others>>

\* a cancelled task ends at its await: CancelledError leaves _periodic_flush
TaskCancelled ==
  /\ \E t \in 1..Len(tasks) :
       /\ tasks[t] = "cancelling"
       /\ tasks' = [tasks EXCEPT ![t] = "ended"]
  /\ Called("task_cancelled", 0)
  /\ UNCHANGED <<rec, files, stopPc, stopTask, offered, life, sess, others>>

\* the session after a write call of its own took effect
Took(channel, pcm_data) ==
  IF channel = "user"
  THEN [sess EXCEPT !.user = @ \o pcm_data, !.pairs = FALSE,
                    !.whole = @ /\ Len(pcm_data) % FrameSize = 0]
  ELSE [sess EXCEPT !.agent = @ \o pcm_data, !.pairs = FALSE,
                    !.whole = @ /\ Len(pcm_data) % FrameSize = 0]

\* a producer calls write_user_frame
WriteUser ==
  /\ \E len \in 0..(MaxChannelBytes - offered.user) :
       /\ rec' = WriteUserFrame(rec, Payload(offered.user, len))
       /\ offered' = [offered EXCEPT !.user = @ + len]
       /\ sess' = IF WriteAllowed(rec)
                  THEN Took("user", Payload(offered.user, len)) ELSE sess
       /\ Written("write_user_frame", len)
  /\ UNCHANGED <<files, tasks, stopPc, stopTask, life, others>>

\* a producer calls write_agent_frame
WriteAgent ==
  /\ \E len \in 0..(MaxChannelBytes - offered.agent) :
       /\ rec' = WriteAgentFrame(rec, AgentPayload(offered.agent, len))
       /\ offered' = [offered EXCEPT !.agent = @ + len]
       /\ sess' = IF WriteAllowed(rec)
                  THEN Took("agent", AgentPayload(offered.agent, len)) ELSE sess
       /\ Written("write_agent_frame", len)
  /\ UNCHANGED <<files, tasks, stopPc, stopTask, life, others>>

\* test_recorder, lines 269-274: one step of the loop writes a frame to the
\* user channel and a frame to the agent channel, and only then sleeps
WritePair ==
  /\ offered.user + FrameSize <= MaxChannelBytes
  /\ offered.agent + FrameSize <= MaxChannelBytes
  /\ LET left_frame == Payload(offered.user, FrameSize)
         right_frame == AgentPayload(offered.agent, FrameSize)
         r == WriteAgentFrame(WriteUserFrame(rec, left_frame), right_frame)
     IN  /\ rec' = r
         /\ sess' = IF WriteAllowed(rec)
                    THEN [sess EXCEPT !.user = @ \o left_frame,
                                      !.agent = @ \o right_frame]
                    ELSE sess
  /\ offered' = [user |-> offered.user + FrameSize,
                 agent |-> offered.agent + FrameSize]
  /\ Written("write_pair", FrameSize)
  /\ UNCHANGED <<files, tasks, stopPc, stopTask, life, others>>

NextRec ==
  \/ Start
  \/ StopIdle
  \/ StopBegin
  \/ StopJoined
  \/ StopFinish
  \/ TaskBegins
  \/ PeriodicFlush
  \/ TaskCancelled
  \/ WriteUser
  \/ WriteAgent
  \/ WritePair

(***************************************************************************)
(* VolcEngineTTSClient (services/tts.py): the binary protocol.  A buffer   *)
(* is a sequence of bytes 0..255.                                          *)
(***************************************************************************)
\* data[a:b] on bytes: the slice is cut at the end of the buffer
PySlice(data, a, b) == SubSeq(data, a + 1, IF b < Len(data) THEN b ELSE Len(data))

\* struct.unpack(">i", s)[0]: signed, big-endian
UnpackInt32(s) ==
  (IF s[1] >= 128 THEN s[1] - 256 ELSE s[1]) * 16777216
    + s[2] * 65536 + s[3] * 256 + s[4]

\* variant of UnpackUInt32: the bytes are read little-endian
UnpackUInt32LE(s) ==
  IF s[4] >= 128 THEN 2147483647
  ELSE s[4] * 16777216 + s[3] * 65536 + s[2] * 256 + s[1]

\* struct.unpack(">I", s)[0]: unsigned, big-endian.  A value of 2^31 or more
\* is held at 2^31 - 1: the code only compares it with buffer lengths.
UnpackUInt32(s) ==
  IF s[1] >= 128 THEN 2147483647
  ELSE s[1] * 16777216 + s[2] * 65536 + s[3] * 256 + s[4]

\* variant of HasField: the length of the buffer is not tested
HasFieldUnchecked(data, offset) == TRUE

\* lines 186 and 190: len(data) >= offset + 4
HasField(data, offset) == Len(data) >= offset + 4

\* what _parse_response returns
Triple(msg_type, sequence, payload) ==
  [raised |-> FALSE, msg_type |-> msg_type, sequence |-> sequence,
   payload |-> payload]

\* struct.error: unpack was handed a slice that is not 4 bytes long
StructError ==
  [raised |-> TRUE, msg_type |-> 0, sequence |-> 0, payload |-> <<>>]

\* _parse_response, lines 163-200
ParseResponse(data) ==
  IF Len(data) < 4 THEN Triple(0, 0, <<>>)
  ELSE
    LET byte1 == data[2]
        msg_type == (byte1 \div 16) % 16
        type_flags == byte1 % 16
    IN  IF msg_type = MESSAGE_TYPE_AUDIO_ONLY
        THEN
          LET readsSeq == type_flags # 0 /\ HasField(data, 4)
              seqBytes == PySlice(data, 4, 8)
              offset == IF readsSeq THEN 8 ELSE 4
              sizeBytes == PySlice(data, offset, offset + 4)
          IN  IF readsSeq /\ Len(seqBytes) # 4 THEN StructError
              ELSE IF ~HasField(data, offset) THEN Triple(msg_type, 0, <<>>)
              ELSE IF Len(sizeBytes) # 4 THEN StructError
              ELSE
                LET sequence == IF readsSeq THEN UnpackInt32(seqBytes) ELSE 0
                    payload_size == UnpackUInt32(sizeBytes)
                    start == offset + 4
                IN  \* line 193, len(data) >= offset + payload_size
                    IF Len(data) - start >= payload_size
                    THEN Triple(msg_type, sequence,
                                PySlice(data, start, start + payload_size))
                    ELSE Triple(msg_type, 0, <<>>)
        \* lines 196-200: an error frame and any other type
        ELSE Triple(msg_type, 0, <<>>)

(***************************************************************************)
(* _build_request (tts.py:119-161).  A string is a sequence of characters; *)
(* a character is a one-character string, or the name of a code point      *)
(* outside ASCII.  The text json.dumps writes is a sequence of symbols: a  *)
(* character of a string or a number each is a symbol, and so is each      *)
(* punctuation mark and each quoted constant of the request ("app",        *)
(* "pcm", ...).  The text is ASCII, so encode("utf-8") gives one byte per  *)
(* character and a byte is named by its character.  gzip is modelled by a  *)
(* run-length code between a magic number and the length of the input:    *)
(* lossless, and not the identity.                                         *)
(***************************************************************************)
\* characters outside ASCII and their four hex digits in a \u escape
CodePoints == {"U4E2D"}

HexDigitsOf(c) == IF c = "U4E2D" THEN <<"4", "e", "2", "d">> ELSE <<>>

DigitChar == <<"0", "1", "2", "3", "4", "5", "6", "7", "8", "9">>

Digits == {DigitChar[i] : i \in 1..10}

RECURSIVE Decimal(_)
\* json.dumps of an int
Decimal(k) ==
  IF k < 10 THEN <<DigitChar[k + 1]>>
  ELSE Decimal(k \div 10) \o <<DigitChar[(k % 10) + 1]>>

\* json.dumps of a float given in tenths: 10 is written 1.0
FloatRepr(tenths) == Decimal(tenths \div 10) \o <<".">> \o Decimal(tenths % 10)

\* json.dumps of one character of a string (ensure_ascii)
EscapeChar(c) ==
  IF c = "\"" THEN <<"\\", "\"">>
  ELSE IF c = "\\" THEN <<"\\", "\\">>
  ELSE IF c \in CodePoints THEN <<"\\", "u">> \o HexDigitsOf(c)
  ELSE <<c>>

RECURSIVE EscapeAll(_)
EscapeAll(chars) ==
  IF chars = <<>> THEN <<>>
  ELSE EscapeChar(Head(chars)) \o EscapeAll(Tail(chars))

\* values of the request: strings, quoted constants, numbers, objects
Str(chars) == [t |-> "str", v |-> chars]
Lit(name) == [t |-> "lit", v |-> name]
IntVal(k) == [t |-> "int", v |-> k]
FloatVal(tenths) == [t |-> "float", v |-> tenths]
Obj(members) == [t |-> "obj", v |-> members]
Member(key, val) == [key |-> key, val |-> val]

RECURSIVE Dumps(_), DumpsMembers(_)
\* json.dumps, line 144
Dumps(value) ==
  IF value.t = "str" THEN <<"\"">> \o EscapeAll(value.v) \o <<"\"">>
  ELSE IF value.t = "lit" THEN <<value.v>>
  ELSE IF value.t = "int" THEN Decimal(value.v)
  ELSE IF value.t = "float" THEN FloatRepr(value.v)
  ELSE <<"{">> \o DumpsMembers(value.v) \o <<"}">>

DumpsMembers(members) ==
  IF members = <<>> THEN <<>>
  ELSE <<Head(members).key, ": ">> \o Dumps(Head(members).val)
         \o (IF Len(members) > 1 THEN <<", ">> ELSE <<>>)
         \o DumpsMembers(Tail(members))

RECURSIVE RunLength(_)
\* how many times the first symbol of data is repeated at its start
RunLength(data) ==
  IF Len(data) >= 2 /\ data[1] = data[2] THEN 1 + RunLength(Tail(data)) ELSE 1

RECURSIVE Runs(_)
Runs(data) ==
  IF data = <<>> THEN <<>>
  ELSE <<[k |-> "run", n |-> RunLength(data), b |-> data[1]]>>
         \o Runs(SubSeq(data, RunLength(data) + 1, Len(data)))

\* gzip.compress, line 144
GzipCompress(data) ==
  <<[k |-> "magic", n |-> 8075, b |-> ""]>>
    \o Runs(data)
    \o <<[k |-> "isize", n |-> Len(data), b |-> ""]>>

\* variant of PackUInt32: the bytes are written little-endian
PackUInt32LE(k) ==
  <<k % 256, (k \div 256) % 256, (k \div 65536) % 256, (k \div 16777216) % 256>>

\* struct.pack(">I", k), line 160
PackUInt32(k) ==
  <<(k \div 16777216) % 256, (k \div 65536) % 256, (k \div 256) % 256, k % 256>>

\* variant of RequestJson: the text and the request id change places
RequestJsonSwapped(req_id, text, voice_type, sample_rate, speed_ratio) ==
  Obj(<<Member("app", Obj(<<Member("appid", Str(<<"i", "d">>)),
                            Member("token", Lit("access_token")),
                            Member("cluster", Lit("volcano_tts"))>>)),
        Member("user", Obj(<<Member("uid", Lit("agent_user"))>>)),
        Member("audio", Obj(<<Member("voice_type", Str(voice_type)),
                              Member("encoding", Lit("pcm")),
                              Member("speed_ratio", FloatVal(speed_ratio)),
                              Member("rate", IntVal(sample_rate))>>)),
        Member("request", Obj(<<Member("reqid", Str(text)),
                                Member("text", Str(req_id)),
                                Member("operation", Lit("submit"))>>))>>)

\* lines 127-141: the request object, its members in the order written
RequestJson(req_id, text, voice_type, sample_rate, speed_ratio) ==
  Obj(<<Member("app", Obj(<<Member("appid", Str(<<"i", "d">>)),
                            Member("token", Lit("access_token")),
                            Member("cluster", Lit("volcano_tts"))>>)),
        Member("user", Obj(<<Member("uid", Lit("agent_user"))>>)),
        Member("audio", Obj(<<Member("voice_type", Str(voice_type)),
                              Member("encoding", Lit("pcm")),
                              Member("speed_ratio", FloatVal(speed_ratio)),
                              Member("rate", IntVal(sample_rate))>>)),
        Member("request", Obj(<<Member("reqid", Str(req_id)),
                                Member("text", Str(text)),
                                Member("operation", Lit("submit"))>>))>>)

\* _build_request, lines 119-161
BuildRequest(req_id, text, voice_type, sample_rate, speed_ratio) ==
  LET request_json ==
        RequestJson(req_id, text, voice_type, sample_rate, speed_ratio)
      payload_gzip == GzipCompress(Dumps(request_json))
      payload_size == Len(payload_gzip)
      header == <<17, 16, 17, 0>>
      size_bytes == PackUInt32(payload_size)
  IN  header \o size_bytes \o payload_gzip

\* arguments of _build_request: texts with a quote, a backslash, a
\* character outside ASCII, digits and a repeated character
RequestIds == {<<"x">>, <<"i", "d">>}
RequestTexts ==
  {<<>>, <<"h", "i">>, <<"\"">>, <<"a", "\\", "\"">>, <<"U4E2D", "a">>,
   <<"1", "2">>, <<"a", "a", "a">>, <<"x">>}
VoiceTypes == {<<"v">>, <<"w", "w">>}
RequestRates == {8000, 16000, 24000}
SpeedRatios == {10, 15}

\* no request built
BuildIdle ==
  req = [done |-> FALSE, req_id |-> <<>>, text |-> <<>>, voice_type |-> <<>>,
         sample_rate |-> 0, speed_ratio |-> 0, out |-> <<>>]

\* a request to build
BuildInputs ==
  \E id \in RequestIds, text \in RequestTexts, voice \in VoiceTypes,
     rate \in RequestRates, speed \in SpeedRatios :
    req = [done |-> FALSE, req_id |-> id, text |-> text, voice_type |-> voice,
           sample_rate |-> rate, speed_ratio |-> speed, out |-> <<>>]

\* synthesize_stream builds the request frame, lines 79-85
Build ==
  /\ ~req.done
  /\ req' = [req EXCEPT
               !.done = TRUE,
               !.out = BuildRequest(req.req_id, req.text, req.voice_type,
                                    req.sample_rate, req.speed_ratio)]
  /\ UNCHANGED <<asrVars, strVars, conv, recVars, restVars, resp, tts>>

NextBuild == Build

\* second bytes of a buffer: audio-only with flags 0, 1 and 3, error,
\* full-client
SecondBytes == {176, 177, 179, 240, 16}

\* bytes of a buffer after its header
TailBytes == {0, 1, 255}

\* the buffers a transport may deliver: a 4-byte header, whole or cut, and
\* any bytes after it
Buffers(maxLen) ==
  {SubSeq(<<17, b, 16, 0>>, 1, len) : b \in SecondBytes, len \in 0..4}
    \cup {<<17, b, 16, 0>> \o tail :
            b \in SecondBytes,
            tail \in UNION {[1..k -> TailBytes] : k \in 1..(maxLen - 4)}}

\* no buffer parsed
ParseIdle == resp = [done |-> FALSE, data |-> <<>>, out |-> Triple(0, 0, <<>>)]

\* synthesize_stream was called and nothing has happened yet
SynthIdle ==
  tts = [pc |-> "connecting", inbox |-> <<>>, read |-> <<>>,
         yielded |-> <<>>, sequence |-> 0, delivered |-> 0]

CodecInit == ParseIdle /\ SynthIdle /\ BuildIdle

\* a buffer to parse
ParseInputs ==
  \E data \in Buffers(MaxResponseBytes) :
    resp = [done |-> FALSE, data |-> data, out |-> Triple(0, 0, <<>>)]

\* the caller parses the buffer
Parse ==
  /\ ~resp.done
  /\ resp' = [resp EXCEPT !.done = TRUE, !.out = ParseResponse(resp.data)]
  /\ UNCHANGED <<asrVars, strVars, conv, recVars, restVars, tts, req>>

NextParse == Parse

(***************************************************************************)
(* synthesize_stream (tts.py:51-117): the read loop.  The generator is at  *)
(* "connecting" until the request is sent, at "reading" when it waits for  *)
(* the next message, at "yielded" while it is suspended at its yield, and  *)
(* at "done" or "raised" when it has ended.                                *)
(***************************************************************************)
\* an audio-only frame: flags, the bytes of the sequence field (none when
\* the frame has no such field), the declared length, the payload
AudioFrame(flags, seqBytes, declared, payload) ==
  <<17, MESSAGE_TYPE_AUDIO_ONLY * 16 + flags, 16, 0>>
    \o seqBytes \o <<0, 0, 0, declared>> \o payload

Binary(data) == [type |-> "BINARY", data |-> data]

\* the messages a transport may deliver
Messages ==
  {Binary(AudioFrame(0, <<>>, 2, <<7, 8>>)),
   Binary(AudioFrame(0, <<>>, 1, <<9>>)),
   Binary(AudioFrame(1, <<0, 0, 0, 1>>, 3, <<1, 2, 3>>)),
   Binary(AudioFrame(3, <<255, 255, 255, 255>>, 0, <<>>)),
   Binary(AudioFrame(2, <<255, 255, 255, 254>>, 2, <<5, 6>>)),
   Binary(AudioFrame(3, <<128, 0, 0, 0>>, 2, <<4>>)),
   Binary(<<17, MESSAGE_TYPE_ERROR * 16, 16, 0, 0, 0, 0, 1, 69>>),
   Binary(<<17, MESSAGE_TYPE_ERROR * 16>>),
   Binary(<<17, 144, 16, 0>>),
   [type |-> "TEXT", data |-> <<>>],
   [type |-> "ERROR", data |-> <<>>],
   [type |-> "CLOSE", data |-> <<>>]}

\* lines 96-97: a payload of odd length loses its last byte
EvenLength(data) ==
  IF Len(data) % 2 # 0 THEN SubSeq(data, 1, Len(data) - 1) ELSE data

\* line 102: if sequence < 0
LastPacket(sequence) == sequence < 0

\* variant of OnErrorFrame: the frame is passed over and the loop goes on
OnErrorFrameSkips == "reading"

\* lines 106-109 and 114-117: RuntimeError is raised, logged, raised again
OnErrorFrame == "raised"

\* lines 76-86: the session and the socket are opened and the request is
\* sent, or one of them raises
Connect ==
  /\ tts.pc = "connecting"
  /\ \E ok \in BOOLEAN :
       tts' = [tts EXCEPT !.pc = IF ok THEN "reading" ELSE "raised"]
  /\ UNCHANGED <<asrVars, strVars, conv, recVars, restVars, resp, req>>

\* the transport delivers a message
Deliver ==
  /\ tts.pc \in {"reading", "yielded"}
  /\ tts.delivered < MaxMessages
  /\ \E msg \in Messages :
       tts' = [tts EXCEPT !.inbox = Append(@, msg), !.delivered = @ + 1]
  /\ UNCHANGED <<asrVars, strVars, conv, recVars, restVars, resp, req>>

\* lines 89-112: the loop takes the next message, up to its yield, its
\* break, its raise or its next wait
ReadMessage ==
  /\ tts.pc = "reading"
  /\ tts.inbox # <<>>
  /\ LET msg == Head(tts.inbox)
         at == Len(tts.read) + 1
         took == [tts EXCEPT !.inbox = Tail(@), !.read = Append(@, msg)]
         out == ParseResponse(msg.data)
     IN  tts' =
           IF msg.type = "CLOSE" THEN [took EXCEPT !.pc = "done"]
           ELSE IF msg.type = "ERROR" THEN [took EXCEPT !.pc = "raised"]
           ELSE IF msg.type # "BINARY" THEN took
           ELSE IF out.raised THEN [took EXCEPT !.pc = "raised"]
           ELSE IF out.msg_type = MESSAGE_TYPE_AUDIO_ONLY
           THEN IF out.payload # <<>>
                THEN [took EXCEPT
                        !.pc = "yielded",
                        !.sequence = out.sequence,
                        !.yielded = Append(@, [data |-> EvenLength(out.payload),
                                               at |-> at])]
                ELSE IF LastPacket(out.sequence)
                THEN [took EXCEPT !.pc = "done"]
                ELSE took
           ELSE IF out.msg_type = MESSAGE_TYPE_ERROR
           THEN [took EXCEPT !.pc = OnErrorFrame]
           ELSE took
  /\ UNCHANGED <<asrVars, strVars, conv, recVars, restVars, resp, req>>

\* lines 100-104: the consumer asks for the next chunk and the generator
\* goes on after its yield
ResumeAfterYield ==
  /\ tts.pc = "yielded"
  /\ tts' = [tts EXCEPT !.pc = IF LastPacket(tts.sequence) THEN "done"
                                ELSE "reading",
                        !.sequence = 0]
  /\ UNCHANGED <<asrVars, strVars, conv, recVars, restVars, resp, req>>

NextSynth ==
  \/ Connect
  \/ Deliver
  \/ ReadMessage
  \/ ResumeAfterYield

(***************************************************************************)
(* AudioRecorder, with _flush_buffers (recorder.py:179-216) taken one      *)
(* statement group at a time: the counts of lines 191-193, then one turn   *)
(* of the loop of lines 198-216 per step.  start(), stop(), the periodic   *)
(* task and the writers are coroutines and calls on one event loop: the    *)
(* loop gives the turn to another of them only when the running one        *)
(* awaits or returns.                                                      *)
(***************************************************************************)
NoFlush == [pc |-> "idle", by |-> "none", task |-> 0, todo |-> 0, done |-> 0]

FlushInit == fl = NoFlush

\* lines 185-196: the number of stereo frames the call will append
FlushCount(r) ==
  IF r.wav_file = 0 THEN 0
  ELSE FramesToWrite(Len(r.user_buffer) \div FrameSize,
                     Len(r.agent_buffer) \div FrameSize)

\* variant of Schedulable: another task may run between two statements of
\* _flush_buffers
SchedulableAnyTime(f) == TRUE

\* _flush_buffers has no await: while a call of it is in progress the event
\* loop runs nothing else
Schedulable(f) == f.pc = "idle"

\* the event loop gives the turn to a call or task other than a flush
LoopTurn ==
  /\ Schedulable(fl)
  /\ \/ Start
     \/ StopIdle
     \/ StopBegin
     \/ StopJoined
     \/ TaskBegins
     \/ TaskCancelled
     \/ WriteUser
     \/ WriteAgent

\* _periodic_flush, line 177: the sleep is over and _flush_buffers is
\* entered; lines 185-193
EnterFlushFromTask ==
  /\ fl.pc = "idle"
  /\ \E t \in 1..Len(tasks) :
       /\ tasks[t] = "sleeping"
       /\ fl' = [pc |-> "loop", by |-> "task", task |-> t,
                 todo |-> FlushCount(rec), done |-> 0]
  /\ UNCHANGED <<asrVars, strVars, conv, recVars, codecVars, ctorVars,
                 sttVars, segVars, vadVars>>

\* stop(), line 130: _flush_buffers is entered; lines 185-193
EnterFlushFromStop ==
  /\ fl.pc = "idle"
  /\ stopPc = "flushing"
  /\ fl' = [pc |-> "loop", by |-> "stop", task |-> 0,
            todo |-> FlushCount(rec), done |-> 0]
  /\ UNCHANGED <<asrVars, strVars, conv, recVars, codecVars, ctorVars,
                 sttVars, segVars, vadVars>>

\* one turn of the loop, lines 198-216
FlushFrame ==
  /\ fl.pc = "loop"
  /\ fl.done < fl.todo
  /\ rec.wav_file # 0
  /\ LET f == FlushLoop(1, rec, files[rec.wav_file])
     IN  /\ rec' = f.rec
         /\ files' = [files EXCEPT ![rec.wav_file] = f.data]
  /\ fl' = [fl EXCEPT !.done = @ + 1]
  /\ UNCHANGED <<tasks, stopPc, stopTask, offered, life, rcall, sess,
                 asrVars, strVars, conv, codecVars, ctorVars, sttVars,
                 segVars, vadVars>>

\* _flush_buffers returns to _periodic_flush, lines 175-176: next turn of
\* the while loop
FlushReturnsToTask ==
  /\ fl.pc = "loop"
  /\ fl.by = "task"
  /\ fl.done >= fl.todo \/ rec.wav_file = 0
  /\ fl' = NoFlush
  /\ tasks' = [tasks EXCEPT ![fl.task] = IF rec.is_recording THEN "sleeping"
                                         ELSE "ended"]
  /\ Written("flush", fl.done)
  /\ UNCHANGED <<rec, files, stopPc, stopTask, offered, life, sess,
                 asrVars, strVars, conv, codecVars, ctorVars, sttVars,
                 segVars, vadVars>>

\* _flush_buffers returns to stop(), lines 133-141: close, return the path
FlushReturnsToStop ==
  /\ fl.pc = "loop"
  /\ fl.by = "stop"
  /\ fl.done >= fl.todo \/ rec.wav_file = 0
  /\ fl' = NoFlush
  /\ rec' = [rec EXCEPT !.wav_file = 0, !.file_path = 0]
  /\ stopPc' = "idle"
  /\ stopTask' = 0
  /\ Called("stop", rec.file_path)
  /\ UNCHANGED <<files, tasks, offered, life, sess,
                 asrVars, strVars, conv, codecVars, ctorVars, sttVars,
                 segVars, vadVars>>

NextFlush ==
  \/ LoopTurn
  \/ EnterFlushFromTask
  \/ EnterFlushFromStop
  \/ FlushFrame
  \/ FlushReturnsToTask
  \/ FlushReturnsToStop

(***************************************************************************)
(* LocalSTT (plugins/stt.py:24-58) and the speech streams made from it.    *)
(* LocalSTT.__init__ makes one LocalASR; every stream() call hands that    *)
(* same instance to the new LocalSpeechStream.  A stream is named by its   *)
(* number, a frame by its arrival number over all streams.  A              *)
(* process_audio call is in progress from the moment an executor thread    *)
(* enters it until it returns; its statements are run in one step when it  *)
(* returns (a schedule the interpreter can produce: the thread is          *)
(* suspended at the entry of the call and later runs it whole).            *)
(***************************************************************************)
\* no operation on the shared LocalASR yet
NoSharedCall ==
  [op |-> "none", by |-> 0, pre |-> AsrNew, owner |-> 0, others |-> {}]

\* LocalSTT.__init__, lines 29-35
SttInit ==
  stt = [asr |-> AsrNew, streams |-> <<>>, busy |-> {}, frames |-> 0,
         owner |-> 0, last |-> NoSharedCall]

\* the stream whose utterance is under way after stream i's call changed
\* the speaking flag from was to is
OwnerAfter(owner, i, was, is) ==
  IF ~is THEN 0 ELSE IF ~was THEN i ELSE owner

\* LocalSTT.stream, lines 46-58, and LocalSpeechStream.__init__, lines
\* 61-74: the new stream gets the LocalSTT's LocalASR and resets it
StreamCall ==
  /\ Len(stt.streams) < MaxStreams
  /\ LET i == Len(stt.streams) + 1
     IN  stt' = [stt EXCEPT
                   !.streams = Append(@, [pc |-> "recv", cur |-> 0]),
                   !.asr = Reset(@),
                   !.owner = 0,
                   !.last = [op |-> "reset", by |-> i, pre |-> stt.asr,
                             owner |-> stt.owner, others |-> stt.busy]]
  /\ UNCHANGED <<asrVars, strVars, conv, recVars, codecVars, ctorVars,
                 flushVars, segVars, vadVars>>

\* _run of stream i, lines 80-93: a frame is received and submitted to the
\* executor, and _run awaits the future
SubmitFrame ==
  /\ stt.frames < MaxSttFrames
  /\ \E i \in 1..Len(stt.streams) :
       /\ stt.streams[i].pc = "recv"
       /\ stt' = [stt EXCEPT !.frames = @ + 1,
                             !.streams[i] = [pc |-> AfterSubmit,
                                             cur |-> stt.frames + 1]]
  /\ UNCHANGED <<asrVars, strVars, conv, recVars, codecVars, ctorVars,
                 flushVars, segVars, vadVars>>

\* an executor thread enters process_audio for stream i's frame, line 161
EnterProcessAudio ==
  /\ \E i \in 1..Len(stt.streams) :
       /\ stt.streams[i].pc = "await"
       /\ i \notin stt.busy
       /\ stt' = [stt EXCEPT !.busy = @ \cup {i}]
  /\ UNCHANGED <<asrVars, strVars, conv, recVars, codecVars, ctorVars,
                 flushVars, segVars, vadVars>>

\* the call of stream i runs and returns, asr.py:167-251; _run takes the
\* future and goes back to receiving
ReturnProcessAudio ==
  /\ \E i \in stt.busy, rate \in SampleRates, rms \in Energies, raw \in Texts :
       LET r == ProcessAudio(stt.asr, stt.streams[i].cur, rate, rms, raw)
       IN  stt' = [stt EXCEPT
                     !.asr = r.st,
                     !.busy = @ \ {i},
                     !.streams[i] = [pc |-> "recv", cur |-> 0],
                     !.owner = OwnerAfter(@, i, stt.asr.is_speaking,
                                          r.st.is_speaking),
                     !.last = [op |-> "process_audio", by |-> i,
                               pre |-> stt.asr, owner |-> stt.owner,
                               others |-> stt.busy \ {i}]]
  /\ UNCHANGED <<asrVars, strVars, conv, recVars, codecVars, ctorVars,
                 flushVars, segVars, vadVars>>

NextStt ==
  \/ StreamCall
  \/ SubmitFrame
  \/ EnterProcessAudio
  \/ ReturnProcessAudio

(***************************************************************************)
(* SynthesizeStream._run (plugins/tts.py:178-233).  _tokenize_input sends  *)
(* a sentence stream on the segments channel for the first text after the  *)
(* start or after a flush, ends its input at the flush, and closes the     *)
(* channel when the input channel ends.  _run_segments takes the streams   *)
(* in order.  The tokenizer is opaque: the tokens a stream gives, joined,  *)
(* are any text of FullSentences, and the stream gives its last token      *)
(* only once its input was ended.  synthesize_stream is taken by its       *)
(* outcomes: it yields a chunk, ends, or raises (an error frame, a         *)
(* transport failure: its states "yielded", "done" and "raised").  A       *)
(* stream is named by its number.                                          *)
(***************************************************************************)
\* what the tokens of one sentence stream may join to
FullSentences == {<<>>, <<" ">>, <<"a">>}

\* a call on the emitter or on the client, for sentence stream s
SegCall(op, s) == [op |-> op, s |-> s]

SegInit ==
  seg = [tokPc |-> "run", open |-> FALSE, sent |-> 0, chClosed |-> FALSE,
         pc |-> "next", taken |-> 0, full |-> <<>>, emitter |-> <<>>,
         requests |-> <<>>, failed |-> {}, chunks |-> 0]

\* lines 190-194: a text arrives and no stream is open; a new stream is
\* sent on the segments channel
TokenizeText ==
  /\ seg.tokPc = "run"
  /\ ~seg.open
  /\ seg.sent < MaxSentences
  /\ seg' = [seg EXCEPT !.open = TRUE, !.sent = @ + 1]
  /\ UNCHANGED <<asrVars, strVars, conv, recVars, codecVars, ctorVars,
                 sttVars, flushVars, vadVars>>

\* lines 195-198: a flush arrives; the open stream's input is ended
TokenizeFlush ==
  /\ seg.tokPc = "run"
  /\ seg.open
  /\ seg' = [seg EXCEPT !.open = FALSE]
  /\ UNCHANGED <<asrVars, strVars, conv, recVars, codecVars, ctorVars,
                 sttVars, flushVars, vadVars>>

\* line 199: the input channel has ended; the segments channel is closed
TokenizeEnd ==
  /\ seg.tokPc = "run"
  /\ seg' = [seg EXCEPT !.tokPc = "done", !.chClosed = TRUE]
  /\ UNCHANGED <<asrVars, strVars, conv, recVars, codecVars, ctorVars,
                 sttVars, flushVars, vadVars>>

\* the input of stream k was ended
StreamEnded(g, k) == k < g.sent \/ (k = g.sent /\ ~g.open)

\* line 202: the next stream is taken from the segments channel
TakeStream ==
  /\ seg.pc = "next"
  /\ seg.taken < seg.sent
  /\ seg' = [seg EXCEPT !.pc = "collect", !.taken = @ + 1]
  /\ UNCHANGED <<asrVars, strVars, conv, recVars, codecVars, ctorVars,
                 sttVars, flushVars, vadVars>>

\* line 202: the segments channel is closed and empty; the loop ends
SegmentsEnd ==
  /\ seg.pc = "next"
  /\ seg.taken = seg.sent
  /\ seg.chClosed
  /\ seg' = [seg EXCEPT !.pc = "ended"]
  /\ UNCHANGED <<asrVars, strVars, conv, recVars, codecVars, ctorVars,
                 sttVars, flushVars, vadVars>>

\* line 207: if full_sentence.strip()
SentenceWanted(full_sentence) == Strip(full_sentence) # <<>>

\* lines 203-211: the tokens are joined; a sentence that is not blank
\* starts a segment and a synthesis request
Collect ==
  /\ seg.pc = "collect"
  /\ StreamEnded(seg, seg.taken)
  /\ \E full_sentence \in FullSentences :
       seg' =
         IF SentenceWanted(full_sentence)
         THEN [seg EXCEPT
                 !.full = Append(@, full_sentence),
                 !.emitter = Append(@, SegCall("start_segment", seg.taken)),
                 !.requests = Append(@, seg.taken),
                 !.chunks = 0,
                 !.pc = "synth"]
         ELSE [seg EXCEPT !.full = Append(@, full_sentence), !.pc = "next"]
  /\ UNCHANGED <<asrVars, strVars, conv, recVars, codecVars, ctorVars,
                 sttVars, flushVars, vadVars>>

\* lines 211-219: synthesize_stream yields a chunk; it is written to the
\* recorder and pushed to the emitter
SynthYields ==
  /\ seg.pc = "synth"
  /\ seg.chunks < MaxSegChunks
  /\ seg' = [seg EXCEPT !.emitter = Append(@, SegCall("push", seg.taken)),
                        !.chunks = @ + 1]
  /\ UNCHANGED <<asrVars, strVars, conv, recVars, codecVars, ctorVars,
                 sttVars, flushVars, vadVars>>

\* line 223, after the generator has ended
SynthEnds ==
  /\ seg.pc = "synth"
  /\ seg' = [seg EXCEPT
               !.emitter = Append(@, SegCall("end_segment", seg.taken)),
               !.pc = "next"]
  /\ UNCHANGED <<asrVars, strVars, conv, recVars, codecVars, ctorVars,
                 sttVars, flushVars, vadVars>>

\* variant of OnSegmentFailure: the exception leaves _run_segments
OnSegmentFailurePropagates(g) == [g EXCEPT !.pc = "crashed"]

\* lines 220-223: the exception is logged and the segment is ended
OnSegmentFailure(g) ==
  [g EXCEPT !.emitter = Append(@, SegCall("end_segment", g.taken)),
            !.pc = "next"]

\* lines 211-223: synthesize_stream raises, at its start or after a chunk
SynthFails ==
  /\ seg.pc = "synth"
  /\ seg' = OnSegmentFailure([seg EXCEPT !.failed = @ \cup {seg.taken}])
  /\ UNCHANGED <<asrVars, strVars, conv, recVars, codecVars, ctorVars,
                 sttVars, flushVars, vadVars>>

NextSegments ==
  \/ TokenizeText
  \/ TokenizeFlush
  \/ TokenizeEnd
  \/ TakeStream
  \/ SegmentsEnd
  \/ Collect
  \/ SynthYields
  \/ SynthEnds
  \/ SynthFails

(***************************************************************************)
(* VADEngine (services/vad.py).  Energies are RMS values in thousandths,   *)
(* durations are in tenths of a second.  The RMS of a frame with no        *)
(* samples is the mean of nothing, NaN, and its duration is 0; NaN         *)
(* compares false with every number.                                       *)
(***************************************************************************)
NaN == -1

\* vad.py:31 and 36: 10 ** (-40.0 / 20) is 0.01
DefaultRmsThreshold == 10
\* vad.py:32-33, in tenths of a second
DefaultStartTalking == 5
DefaultStopTalking == 8

\* thresholds an engine may be constructed with
StartThresholds == {0, DefaultStartTalking}
StopThresholds == {0, DefaultStopTalking}

\* the frames an engine may be given, as RMS and duration: silence, sound
\* at the threshold and above it, each short or long, and the empty frame
VadFrames ==
  {[rms |-> r, duration |-> d] : r \in {0, DefaultRmsThreshold, 30},
                                 d \in {2, 3}}
    \cup {[rms |-> NaN, duration |-> 0]}

\* VADEngine.__init__, lines 29-43
VADEngineNew(start_talking_threshold, stop_talking_threshold) ==
  [rms_threshold |-> DefaultRmsThreshold,
   start_talking_threshold |-> start_talking_threshold,
   stop_talking_threshold |-> stop_talking_threshold,
   is_speaking |-> FALSE, speech_duration |-> 0, silence_duration |-> 0]

\* no call made on the engine yet
NoVadCall == [op |-> "none", pre |-> FALSE, event |-> "None"]

VadOf(engine) ==
  [engine |-> engine, frames |-> 0, events |-> <<>>, last |-> NoVadCall]

VadInit == vad = VadOf(VADEngineNew(DefaultStartTalking, DefaultStopTalking))

\* an engine constructed with any of the thresholds
VadInputs ==
  \E start \in StartThresholds, stop \in StopThresholds :
    vad = VadOf(VADEngineNew(start, stop))

\* line 61
IsActive(e, rms) == rms # NaN /\ rms >= e.rms_threshold

\* variant of StartWanted: the engine's state is not looked at
StartWantedWhileSpeaking(e) ==
  e.speech_duration >= e.start_talking_threshold

\* lines 68-71
StartWanted(e) ==
  ~e.is_speaking /\ e.speech_duration >= e.start_talking_threshold

\* lines 84-87
StopWanted(e) ==
  e.is_speaking /\ e.silence_duration >= e.stop_talking_threshold

\* process_frame, lines 45-99: the fields after the call and the event
\* returned
ProcessFrame(e, rms, frame_duration) ==
  IF IsActive(e, rms)
  THEN LET a == [e EXCEPT !.silence_duration = 0,
                          !.speech_duration = @ + frame_duration]
       IN  IF StartWanted(a)
           THEN [engine |-> [a EXCEPT !.is_speaking = TRUE],
                 event |-> "START_OF_SPEECH"]
           ELSE [engine |-> a, event |-> "None"]
  ELSE LET a == [e EXCEPT !.speech_duration = 0,
                          !.silence_duration = @ + frame_duration]
       IN  IF StopWanted(a)
           THEN [engine |-> [a EXCEPT !.is_speaking = FALSE],
                 event |-> "END_OF_SPEECH"]
           ELSE [engine |-> a, event |-> "None"]

\* reset, lines 101-104
VadReset(e) ==
  [e EXCEPT !.is_speaking = FALSE, !.speech_duration = 0,
            !.silence_duration = 0]

\* the caller hands a frame to process_frame
VadFrame ==
  /\ vad.frames < MaxVadFrames
  /\ \E f \in VadFrames :
       LET r == ProcessFrame(vad.engine, f.rms, f.duration)
       IN  vad' = [engine |-> r.engine,
                   frames |-> vad.frames + 1,
                   events |-> IF r.event = "None" THEN vad.events
                              ELSE Append(vad.events, r.event),
                   last |-> [op |-> "process_frame",
                             pre |-> vad.engine.is_speaking,
                             event |-> r.event]]
  /\ UNCHANGED <<asrVars, strVars, conv, recVars, codecVars, ctorVars,
                 sttVars, flushVars, segVars>>

\* the caller resets the engine; the events returned are counted from
\* here.  A reset() right after a reset() changes no field.
VadResetCall ==
  /\ vad.last.op # "reset"
  /\ vad' = [vad EXCEPT !.engine = VadReset(@), !.events = <<>>,
                        !.last = [op |-> "reset",
                                  pre |-> vad.engine.is_speaking,
                                  event |-> "None"]]
  /\ UNCHANGED <<asrVars, strVars, conv, recVars, codecVars, ctorVars,
                 sttVars, flushVars, segVars>>

NextVad == VadFrame \/ VadResetCall

(***************************************************************************)
(* Construction: LocalASR.__init__ (asr.py:47-102) and                     *)
(* VolcEngineTTSClient.__init__ (tts.py:36-49).  The models directory is   *)
(* the set of the file names in it.  A string argument or environment      *)
(* variable is "None" when it is not given or not set, "" when it is       *)
(* empty, and a name otherwise.                                            *)
(***************************************************************************)
ModelFiles ==
  {"encoder.int8.onnx", "encoder.onnx", "decoder.int8.onnx", "decoder.onnx",
   "tokens.txt"}

\* what an argument or an environment variable may be
Settings == {"None", "", "set"}

\* bool(x) is false for None and for the empty string
Falsy(x) == x \in {"None", ""}

\* Python's a or b
PyOr(a, b) == IF Falsy(a) THEN b ELSE a

NoInstance == [kind |-> "none"]

\* asr.py:56-61: the encoder and decoder paths for the files in the directory
EncoderPath(dir) ==
  IF "encoder.int8.onnx" \in dir THEN "encoder.int8.onnx" ELSE "encoder.onnx"

DecoderPath(dir) ==
  IF "encoder.int8.onnx" \in dir THEN "decoder.int8.onnx" ELSE "decoder.onnx"

\* asr.py:63: if not encoder_path.exists()
EncoderMissing(dir) == EncoderPath(dir) \notin dir

\* LocalASR.__init__: the outcomes for a models directory.  The recognizer
\* library is opaque: handed a path with no file behind it, it may raise or
\* return.
LocalASRNew(dir) ==
  IF EncoderMissing(dir)
  THEN {[outcome |-> "raised", error |-> "FileNotFoundError",
         instance |-> NoInstance]}
  ELSE {[outcome |-> "made", error |-> "none",
         instance |-> [kind |-> "LocalASR", fields |-> AsrNew]]}
       \cup (IF {DecoderPath(dir), "tokens.txt"} \subseteq dir THEN {}
             ELSE {[outcome |-> "raised", error |-> "recognizer",
                    instance |-> NoInstance]})

\* tts.py:46-49: a warning is logged and the constructor returns
OnMissingCredentials(app_id, access_token) ==
  [outcome |-> "made", error |-> "none",
   instance |-> [kind |-> "VolcEngineTTSClient", app_id |-> app_id,
                 access_token |-> access_token, warned |-> TRUE]]

\* VolcEngineTTSClient.__init__, lines 36-49
VolcEngineTTSClientNew(app_id_arg, access_token_arg, env_app_id, env_token) ==
  LET app_id == PyOr(app_id_arg, env_app_id)
      access_token == PyOr(access_token_arg, env_token)
  IN  IF Falsy(app_id) \/ Falsy(access_token)
      THEN OnMissingCredentials(app_id, access_token)
      ELSE [outcome |-> "made", error |-> "none",
            instance |-> [kind |-> "VolcEngineTTSClient", app_id |-> app_id,
                          access_token |-> access_token, warned |-> FALSE]]

\* nothing constructed yet
CtorInit ==
  made = [cls |-> "none", given |-> <<>>, outcome |-> "none",
          error |-> "none", instance |-> NoInstance]

RestInit == CtorInit /\ SttInit /\ FlushInit /\ SegInit /\ VadInit

\* the program constructs a LocalASR over a models directory
NewLocalASR ==
  /\ \E dir \in SUBSET ModelFiles :
       \E r \in LocalASRNew(dir) :
         made' = [cls |-> "LocalASR", given |-> dir, outcome |-> r.outcome,
                  error |-> r.error, instance |-> r.instance]
  /\ UNCHANGED <<asrVars, strVars, conv, recVars, codecVars, sttVars,
                 flushVars, segVars, vadVars>>

\* the program constructs a VolcEngineTTSClient
NewVolcEngineTTSClient ==
  /\ \E app_id_arg \in Settings, access_token_arg \in Settings,
        env_app_id \in Settings, env_token \in Settings :
       LET r == VolcEngineTTSClientNew(app_id_arg, access_token_arg,
                                       env_app_id, env_token)
       IN  made' = [cls |-> "VolcEngineTTSClient",
                    given |-> [app_id |-> app_id_arg,
                               access_token |-> access_token_arg,
                               env_app_id |-> env_app_id,
                               env_token |-> env_token],
                    outcome |-> r.outcome, error |-> r.error,
                    instance |-> r.instance]
  /\ UNCHANGED <<asrVars, strVars, conv, recVars, codecVars, sttVars,
                 flushVars, segVars, vadVars>>

NextNew == NewLocalASR \/ NewVolcEngineTTSClient

Init == AsrInit /\ StrInit /\ ConvInit /\ RecInit /\ CodecInit /\ RestInit

SpecASR == Init /\ [][NextASR]_vars

SpecStream == Init /\ [][NextStream]_vars

InitConv ==
  AsrInit /\ StrInit /\ ConvInputs /\ RecInit /\ CodecInit /\ RestInit

SpecConv == InitConv /\ [][NextConv]_vars

SpecRec == Init /\ [][NextRec]_vars

InitParse ==
  /\ AsrInit /\ StrInit /\ ConvInit /\ RecInit
  /\ ParseInputs /\ SynthIdle /\ BuildIdle /\ RestInit

InitBuild ==
  /\ AsrInit /\ StrInit /\ ConvInit /\ RecInit
  /\ ParseIdle /\ SynthIdle /\ BuildInputs /\ RestInit

SpecBuild == InitBuild /\ [][NextBuild]_vars

SpecSynth == Init /\ [][NextSynth]_vars

SpecParse == InitParse /\ [][NextParse]_vars

SpecNew == Init /\ [][NextNew]_vars

SpecStt == Init /\ [][NextStt]_vars

SpecFlush == Init /\ [][NextFlush]_vars

SpecSegments == Init /\ [][NextSegments]_vars

InitVad ==
  /\ AsrInit /\ StrInit /\ ConvInit /\ RecInit /\ CodecInit
  /\ CtorInit /\ SttInit /\ FlushInit /\ SegInit /\ VadInputs

SpecVad == InitVad /\ [][NextVad]_vars

(***************************************************************************)
(* Properties of LocalASR, checked under SpecASR.                          *)
(***************************************************************************)
Pushed == call.op = "process_audio"

\* the chunk of the last call was at or above the threshold that applied to it
WasActive ==
  IF call.pre.is_speaking THEN call.rms >= VAD_END_THRESHOLD
  ELSE call.rms >= VAD_START_THRESHOLD

\* the last call was the one that ended a run of SILENCE_FRAMES_FOR_ENDPOINT
\* chunks below the end threshold, received while Speaking
EndedSilenceRun == Pushed /\ call.low = SILENCE_FRAMES_FOR_ENDPOINT

\* C1: as long as every chunk since construction or the last reset() was
\* below VAD_START_THRESHOLD, the recognizer is not speaking, the decoder
\* stream has accepted nothing, and the last call returned no result and
\* handed nothing to accept_waveform.
C1_QuietStaysIdle ==
  quiet =>
    /\ ~asr.is_speaking
    /\ asr.stream = <<>>
    /\ Pushed => (call.result = NoResult /\ call.accepted = <<>>)

\* more quiet chunks than the lookback holds, the last one between the thresholds
C1_Witness ==
  /\ quiet /\ Pushed
  /\ call.rms >= VAD_END_THRESHOLD
  /\ Len(idleRun) > WINDOW_BUFFER_SIZE

\* C2: when an Idle recognizer that started with an empty lookback has
\* received L <= WINDOW_BUFFER_SIZE chunks below the start threshold and then
\* a chunk at or above it, the trigger call hands accept_waveform exactly
\* those L chunks in arrival order and then the trigger chunk, once.
C2_OnsetFeedsRunThenTrigger ==
  (/\ Pushed
   /\ ~call.pre.is_speaking
   /\ call.rms >= VAD_START_THRESHOLD
   /\ Len(call.run) <= WINDOW_BUFFER_SIZE)
  => call.accepted = call.run \o <<call.chunk>>

\* C3: of a run of consecutive chunks below VAD_END_THRESHOLD received while
\* Speaking, the chunks before the SILENCE_FRAMES_FOR_ENDPOINT-th return no
\* result and leave the recognizer Speaking; the
\* SILENCE_FRAMES_FOR_ENDPOINT-th leaves it Idle and returns a final result
\* when the decoder's text is not empty; no run grows longer.
C3_SilenceRunFinalizes ==
  (Pushed /\ call.pre.is_speaking /\ call.rms < VAD_END_THRESHOLD) =>
    /\ call.low <= SILENCE_FRAMES_FOR_ENDPOINT
    /\ call.low < SILENCE_FRAMES_FOR_ENDPOINT =>
         (call.result = NoResult /\ asr.is_speaking)
    /\ call.low = SILENCE_FRAMES_FOR_ENDPOINT =>
         /\ ~asr.is_speaking
         /\ Strip(call.hyp) # <<>> => call.result.kind = "final"

C3_Witness == EndedSilenceRun /\ call.result.kind = "final"

\* C4: the chunk that triggers finalization returns a final result exactly
\* when the decoder's stripped text is not empty, carrying that text; either
\* way the recognizer is then Idle with silence counter 0, max energy 0, an
\* empty last partial, a fresh decoder stream, and the lookback it had.
C4_FinalizeResets ==
  EndedSilenceRun =>
    /\ call.result.kind = "final" <=> Strip(call.hyp) # <<>>
    /\ call.result.kind = "final" => call.result.text = Strip(call.hyp)
    /\ call.result.kind \in {"final", "none"}
    /\ call.result.text # <<>> <=> call.result.kind = "final"
    /\ ~asr.is_speaking
    /\ asr.silence_frame_count = 0
    /\ asr.max_rms = 0
    /\ asr.last_partial_text = <<>>
    /\ asr.stream = <<>>
    /\ asr.window_buffer = call.pre.window_buffer

\* finalization on a text of whitespace only, after an interim was reported
C4_Witness ==
  /\ EndedSilenceRun
  /\ call.hyp = <<" ">>
  /\ call.pre.last_partial_text # <<>>

\* C5 as claimed: every chunk processed while Speaking that does not trigger
\* finalization, whose decoder text differs from the last reported partial,
\* returns an interim result with that text and updates the last reported.
C5_InterimOnEveryChange ==
  (/\ Pushed
   /\ call.pre.is_speaking
   /\ ~EndedSilenceRun
   /\ Strip(call.hyp) # call.pre.last_partial_text)
  => /\ call.result = [kind |-> "interim", text |-> Strip(call.hyp)]
     /\ asr.last_partial_text = Strip(call.hyp)

\* C5 as amended: a chunk at or above the threshold that applies (it starts
\* or continues Speaking) returns an interim result with the decoder's
\* stripped text and updates the last reported partial exactly when that
\* text is not empty and differs from the last reported one; a chunk below
\* the end threshold that does not trigger finalization returns nothing and
\* leaves the last reported partial as it was.
C5_InterimOnActiveChange ==
  (Pushed /\ ~EndedSilenceRun /\ (call.pre.is_speaking \/ WasActive)) =>
    IF /\ WasActive
       /\ Strip(call.hyp) # <<>>
       /\ Strip(call.hyp) # call.pre.last_partial_text
    THEN /\ call.result = [kind |-> "interim", text |-> Strip(call.hyp)]
         /\ asr.last_partial_text = Strip(call.hyp)
    ELSE /\ call.result = NoResult
         /\ asr.last_partial_text = call.pre.last_partial_text

\* a second, different interim text on a chunk between the two thresholds
C5_Witness ==
  /\ Pushed /\ call.pre.is_speaking
  /\ call.rms < VAD_START_THRESHOLD
  /\ call.result.kind = "interim"
  /\ call.pre.last_partial_text # <<>>

\* C7: reset() leaves the recognizer Idle with silence counter 0, max energy
\* 0, an empty last partial and a fresh decoder stream, and the lookback and
\* the resampler cache as they were; a second reset() in a row changes
\* nothing.
C7_ResetIdempotent ==
  call.op = "reset" =>
    /\ ~asr.is_speaking
    /\ asr.silence_frame_count = 0
    /\ asr.max_rms = 0
    /\ asr.last_partial_text = <<>>
    /\ asr.stream = <<>>
    /\ asr.window_buffer = call.pre.window_buffer
    /\ asr.resamplers = call.pre.resamplers
    /\ resetRun = 2 => asr = call.pre

\* two resets in a row on a recognizer whose lookback holds chunks
C7_Witness == call.op = "reset" /\ resetRun = 2 /\ asr.window_buffer # <<>>

(***************************************************************************)
(* Properties of LocalSpeechStream, checked under SpecStream.              *)
(***************************************************************************)
IsPrefix(a, b) == Len(a) <= Len(b) /\ a = SubSeq(b, 1, Len(a))

RECURSIVE AudioIds(_)
\* the audio frames among the items, in order
AudioIds(items) ==
  IF items = <<>> THEN <<>>
  ELSE IF Head(items).kind = "audio"
  THEN <<Head(items).id>> \o AudioIds(Tail(items))
  ELSE AudioIds(Tail(items))

NoneConsumed == \E i \in 1..Len(consumed) : consumed[i].kind = "none"

EventFrames == [i \in 1..Len(eventCh) |-> eventCh[i].frame]

Increasing(q) == \A i, j \in 1..Len(q) : i < j => q[i] < q[j]

\* C6: a chunk whose conversion, resampling or decoding raises completes its
\* executor future with no exception and no result and puts no event on the
\* event channel; _run never ends by an exception, it ends only when it has
\* received None or the channel is closed and drained, and then every audio
\* frame it received, those after a failing one included, was processed.
C6_FailingChunkDropped ==
  /\ pc # "crashed"
  /\ \A f \in futs : ~f.raised /\ (f.id \in raisedIn => f.result = NoResult)
  /\ \A i \in 1..Len(eventCh) : eventCh[i].frame \notin raisedIn
  /\ pc = "done" =>
       /\ NoneConsumed \/ (closed /\ inputCh = <<>>)
       /\ returned = AudioIds(consumed)
       /\ ~NoneConsumed => returned = AudioIds(arrived)

\* the stream ended normally, a chunk raised inside the decoder, and a later
\* chunk produced an event
C6_Witness ==
  /\ pc = "done" /\ ~NoneConsumed
  /\ \E id \in raisedIn :
       /\ asr.stream # <<>> \/ asr.window_buffer # <<>>
       /\ \E i \in 1..Len(eventCh) : eventCh[i].frame > id

\* C9: _run receives the items in arrival order; the audio frames are handed
\* to the recognizer in that order, one at a time, the next only after the
\* one before has returned; every audio frame received is handed; and the
\* events are in the order of the frames that produced them.
C9_FramesInArrivalOrder ==
  /\ IsPrefix(consumed, arrived)
  /\ IsPrefix(handed, AudioIds(consumed))
  /\ Len(AudioIds(consumed)) <= Len(handed) + 1
  /\ IsPrefix(returned, handed)
  /\ Len(handed) <= Len(returned) + 1
  /\ Cardinality(running) <= 1
  /\ running # {} => returned = SubSeq(handed, 1, Len(handed) - 1)
  /\ Increasing(EventFrames)
  /\ \A i \in 1..Len(eventCh) :
       \E j \in 1..Len(returned) : returned[j] = eventCh[i].frame
  /\ (pc = "done" /\ ~NoneConsumed) => handed = AudioIds(arrived)

\* a flush sentinel between audio frames, three frames processed, two events
C9_Witness ==
  /\ pc = "done"
  /\ Len(handed) >= 3
  /\ Len(eventCh) >= 2
  /\ \E i \in 1..Len(consumed) : consumed[i].kind = "flush"

(***************************************************************************)
(* Properties of audio_frame_to_float32, checked under SpecConv.           *)
(***************************************************************************)
\* sample i (from 1) of channel ch (0 or 1) of interleaved stereo bytes
StereoSample(data, i, ch) ==
  Int16Of(data[4 * (i - 1) + 2 * ch + 1], data[4 * (i - 1) + 2 * ch + 2])

\* C8: for a buffer of whole interleaved 2-channel int16 frames (a trailing
\* odd byte aside) and num_channels = 2, the output has one element per
\* stereo frame, element i is the channel-0 sample of frame i over 32768,
\* and wherever the two channels differ it is not their average.
C8_StereoTakesChannel0 ==
  (conv.done /\ conv.channels = 2 /\ Len(conv.data) % 4 \in {0, 1}) =>
    /\ Len(conv.out) = Len(conv.data) \div 4
    /\ \A i \in 1..Len(conv.out) :
         LET l == StereoSample(conv.data, i, 0)
             r == StereoSample(conv.data, i, 1)
         IN  /\ conv.out[i] = l
             /\ l # r => 2 * conv.out[i] # l + r

\* two stereo frames with a negative channel-0 sample and a silent channel 1
C8_Witness ==
  /\ conv.done /\ conv.channels = 2
  /\ Len(conv.data) = 8
  /\ conv.out[1] < 0
  /\ StereoSample(conv.data, 1, 1) = 0
  /\ conv.out[2] > 0

(***************************************************************************)
(* Properties of AudioRecorder, checked under SpecRec.                     *)
(***************************************************************************)
WriteOps == {"write_user_frame", "write_agent_frame"}

\* C10: a write_user_frame or write_agent_frame call made when no start()
\* was called yet, or when stop() was called after the last start(), leaves
\* every field of the recorder (both buffers, the three frame counters) and
\* every container as they were, whatever its payload.
C10_WriteOutsideRecordingIsNoOp ==
  [][(rcall'.op \in WriteOps /\ rcall'.life \in {"new", "stopped"})
       => (rec' = rec /\ files' = files)]_vars

\* a whole frame written while stop() awaits the cancelled flush task, with
\* unflushed bytes in the buffer
C10_Witness ==
  /\ rcall.op = "write_agent_frame"
  /\ rcall.life = "stopped"
  /\ rcall.arg >= FrameSize
  /\ stopPc = "joining"
  /\ rec.agent_buffer # <<>>

\* the bytes of channel ch (0 is left, 1 is right) of interleaved stereo data
ChannelOf(data, ch) ==
  [k \in 1..(Len(data) \div 2) |->
     data[((k - 1) \div BYTES_PER_SAMPLE) * 2 * BYTES_PER_SAMPLE
          + ch * BYTES_PER_SAMPLE + ((k - 1) % BYTES_PER_SAMPLE) + 1]]

\* stop() has just returned a path
StopReturnedPath == rcall.op = "stop" /\ rcall.ret # 0

\* C11: when stop() returns the path of a session in which only the user
\* channel was written, N whole frames in all, the container of that path
\* holds exactly N stereo frames, its left channel is the N frames in the
\* order written, and every byte of its right channel is 0, whatever flushes
\* ran in between.
C11_UserOnlyPadsRightWithSilence ==
  (StopReturnedPath /\ sess.whole /\ sess.agent = <<>>) =>
    LET art == files[rcall.ret]
        N == Len(sess.user) \div FrameSize
    IN  /\ Len(art) = N * 2 * FrameSize
        /\ ChannelOf(art, 0) = sess.user
        /\ \A k \in 1..(Len(art) \div 2) : ChannelOf(art, 1)[k] = 0

\* two user frames written in separate calls, the session closed by a
\* stop() that joined its flush task
C11_Witness ==
  /\ StopReturnedPath /\ sess.whole /\ sess.agent = <<>>
  /\ ~sess.pairs
  /\ Len(sess.user) = 2 * FrameSize
  /\ rec.user_frame_count = 2
  /\ \E t \in 1..Len(tasks) : tasks[t] = "ended"

\* C12: when stop() returns the path of a session in which every write was
\* a step of one whole user frame and one whole agent frame, the left
\* channel of the container is the user frames in the order written, the
\* right channel is the agent frames in the order written, and the
\* container holds as many stereo frames as steps: no silence frame was
\* inserted, wherever the periodic flushes fell between the steps.
C12_PairsReadBackExact ==
  (StopReturnedPath /\ sess.pairs) =>
    LET art == files[rcall.ret]
    IN  /\ ChannelOf(art, 0) = sess.user
        /\ ChannelOf(art, 1) = sess.agent
        /\ Len(art) = 2 * Len(sess.user)
        /\ \A k \in 1..Len(art) : art[k] # 0

\* two steps written in one session, then stop()
C12_Witness ==
  /\ StopReturnedPath /\ sess.pairs
  /\ Len(sess.user) = 2 * FrameSize
  /\ Len(sess.agent) = 2 * FrameSize
  /\ rec.synced_frame_count = 2

\* a step that ran _flush_buffers on an open container: the periodic task's
\* flush or the final flush of stop()
FlushedOpen ==
  /\ rec.wav_file # 0
  /\ rcall'.op = "flush" \/ (stopPc = "flushing" /\ stopPc' = "idle")

\* frame k (from 1) of a channel's bytes
FrameOf(bytes, k) == SubSeq(bytes, (k - 1) * FrameSize + 1, k * FrameSize)

\* what a channel contributes to m stereo frames when its buffer holds buf:
\* its complete frames in order, then all-zero frames
PaddedTo(buf, m) ==
  [k \in 1..(m * FrameSize) |->
     IF k <= (Len(buf) \div FrameSize) * FrameSize THEN buf[k] ELSE 0]

\* C13: a flush that finds u complete frames in the user buffer and a in the
\* agent buffer appends exactly max(u, a) stereo frames to the open
\* container and adds max(u, a) to the synced-frame counter; both channels
\* of what it appends have max(u, a) frames, each channel's complete frames
\* first and all-zero frames in the positions it is short of.
C13_FlushAppendsMaxFrames ==
  [][FlushedOpen =>
       LET w == rec.wav_file
           u == Len(rec.user_buffer) \div FrameSize
           a == Len(rec.agent_buffer) \div FrameSize
           m == IF u >= a THEN u ELSE a
           app == SubSeq(files'[w], Len(files[w]) + 1, Len(files'[w]))
       IN  /\ Len(files'[w]) = Len(files[w]) + m * 2 * FrameSize
           /\ SubSeq(files'[w], 1, Len(files[w])) = files[w]
           /\ rec'.synced_frame_count = rec.synced_frame_count + m
           /\ ChannelOf(app, 0) = PaddedTo(rec.user_buffer, m)
           /\ ChannelOf(app, 1) = PaddedTo(rec.agent_buffer, m)
           /\ \A p \in 1..Len(files) : p # w => files'[p] = files[p]]_vars

\* one periodic flush appended two stereo frames, the second of them with
\* silence on the right
C13_Witness ==
  /\ rcall.op = "flush" /\ rcall.arg = 2
  /\ rec.wav_file # 0
  /\ LET art == files[rec.wav_file]
         right == ChannelOf(art, 1)
         left == ChannelOf(art, 0)
     IN  /\ Len(art) = 4 * FrameSize
         /\ \A k \in 1..FrameSize : FrameOf(right, 1)[k] # 0
         /\ FrameOf(right, 2) = SILENCE_FRAME
         /\ \A k \in 1..(2 * FrameSize) : left[k] # 0

\* a step in which a suspended stop() runs to its return
StopReturns == stopPc = "flushing" /\ stopPc' = "idle"

\* a step in which stop() is called
StopCalled == rcall'.op \in {"stop", "stop_begin"} /\ ~StopReturns

AudioOnlyFrame(data) ==
  Len(data) >= 4 /\ (data[2] \div 16) % 16 = MESSAGE_TYPE_AUDIO_ONLY

FlagNibble(data) == data[2] % 16

\* the 4 bytes from offset at (from 0) declare a length that fits in what
\* is left of the buffer after them
DeclaredFits(data, at) ==
  /\ Len(data) >= at + 4
  /\ data[at + 1] = 0 /\ data[at + 2] = 0
  /\ data[at + 3] * 256 + data[at + 4] <= Len(data) - (at + 4)

\* the length those 4 bytes declare, when it fits
Declared(data, at) == data[at + 3] * 256 + data[at + 4]

\* C16: for an audio-only frame with flag nibble 0 whose big-endian length
\* field at offset 4 declares P bytes that are all in the buffer,
\* _parse_response returns (MESSAGE_TYPE_AUDIO_ONLY, 0, the P bytes from
\* offset 8 on).
C16_AudioOnlyNoSequence ==
  (/\ resp.done
   /\ AudioOnlyFrame(resp.data)
   /\ FlagNibble(resp.data) = 0
   /\ DeclaredFits(resp.data, 4))
  => resp.out = [raised |-> FALSE,
                 msg_type |-> MESSAGE_TYPE_AUDIO_ONLY,
                 sequence |-> 0,
                 payload |-> SubSeq(resp.data, 9,
                                    8 + Declared(resp.data, 4))]

\* a frame that declares one byte of payload and carries bytes after it
C16_Witness ==
  /\ resp.done
  /\ AudioOnlyFrame(resp.data)
  /\ FlagNibble(resp.data) = 0
  /\ DeclaredFits(resp.data, 4) /\ Declared(resp.data, 4) = 1
  /\ Len(resp.data) > 9
  /\ resp.out.payload = <<255>>

\* where _parse_response looks for the length field of an audio-only frame
LengthOffset(data) ==
  IF FlagNibble(data) # 0 /\ Len(data) >= 8 THEN 8 ELSE 4

\* C17: for every buffer _parse_response returns a triple and raises
\* nothing; the payload it returns is empty or a slice that lies inside the
\* buffer; and when the length an audio-only frame declares exceeds the
\* bytes left after the length field, the payload is empty.
C17_ParseTotal ==
  resp.done =>
    LET data == resp.data
        out == resp.out
    IN  /\ ~out.raised
        /\ out.msg_type \in 0..15
        /\ out.sequence \in Int
        /\ \/ out.payload = <<>>
           \/ \E off \in 0..Len(data) :
                /\ off + Len(out.payload) <= Len(data)
                /\ out.payload = SubSeq(data, off + 1, off + Len(out.payload))
        /\ (/\ AudioOnlyFrame(data)
            /\ Len(data) >= LengthOffset(data) + 4
            /\ ~DeclaredFits(data, LengthOffset(data)))
           => out.payload = <<>>
        /\ Len(data) < 4 => out = Triple(0, 0, <<>>)

\* a frame with a sequence flag, cut inside its length field, whose
\* sequence bytes are negative
C17_Witness ==
  /\ resp.done
  /\ AudioOnlyFrame(resp.data)
  /\ FlagNibble(resp.data) # 0
  /\ Len(resp.data) = 10
  /\ resp.data[5] = 255
  /\ resp.out.payload = <<>>

(***************************************************************************)
(* Properties of synthesize_stream, checked under SpecSynth.               *)
(***************************************************************************)
\* a binary message that is an audio-only frame with a sequence field whose
\* value is negative
CarriesNegativeSequence(msg) ==
  /\ msg.type = "BINARY"
  /\ AudioOnlyFrame(msg.data)
  /\ FlagNibble(msg.data) # 0
  /\ Len(msg.data) >= 8
  /\ msg.data[5] >= 128

\* the read loop has ended, or is suspended at the yield of message i and
\* will break when it is resumed
StopsAt(i) ==
  \/ tts.pc = "done"
  \/ /\ tts.pc = "yielded"
     /\ tts.sequence < 0
     /\ tts.yielded[Len(tts.yielded)].at = i

\* C18: once synthesize_stream has read an audio-only frame that carries a
\* negative sequence, whatever payload the frame has, it reads no message
\* after it and yields no chunk of a later message: the loop has ended, or
\* is suspended at the yield of that frame's payload and ends when resumed.
C18_StopsAfterNegativeSequence ==
  \A i \in 1..Len(tts.read) :
    CarriesNegativeSequence(tts.read[i]) =>
      /\ i = Len(tts.read)
      /\ StopsAt(i)
      /\ \A k \in 1..Len(tts.yielded) : tts.yielded[k].at <= i

\* a binary message with a whole header whose message type is the error type
ErrorFrame(msg) ==
  /\ msg.type = "BINARY"
  /\ Len(msg.data) >= 4
  /\ (msg.data[2] \div 16) % 16 = MESSAGE_TYPE_ERROR

\* C19: once synthesize_stream has read a binary frame whose message type
\* is the error type, it has ended by raising: the frame is the last
\* message read, no chunk is yielded for it or after it, and the loop is
\* never back at waiting for a message.
C19_ErrorFrameRaises ==
  \A i \in 1..Len(tts.read) :
    ErrorFrame(tts.read[i]) =>
      /\ i = Len(tts.read)
      /\ tts.pc = "raised"
      /\ \A k \in 1..Len(tts.yielded) : tts.yielded[k].at < i

\* an error frame read after a frame that was yielded, with a message left
\* unread
C19_Witness ==
  /\ tts.pc = "raised"
  /\ Len(tts.read) >= 2
  /\ ErrorFrame(tts.read[Len(tts.read)])
  /\ tts.yielded # <<>>
  /\ tts.inbox # <<>>

(***************************************************************************)
(* Properties of _build_request, checked under SpecBuild.  The reader's    *)
(* side: gzip.decompress and json.loads.                                   *)
(***************************************************************************)
RECURSIVE Repeat(_, _)
Repeat(b, k) == IF k = 0 THEN <<>> ELSE <<b>> \o Repeat(b, k - 1)

RECURSIVE Expand(_)
Expand(runs) ==
  IF runs = <<>> THEN <<>>
  ELSE Repeat(Head(runs).b, Head(runs).n) \o Expand(Tail(runs))

\* gzip.decompress: the data, and whether the magic number and the length
\* at the end are right
GzipDecompress(z) ==
  LET data == Expand(SubSeq(z, 2, Len(z) - 1))
  IN  [ok |-> /\ Len(z) >= 2
              /\ z[1].k = "magic" /\ z[1].n = 8075
              /\ z[Len(z)].k = "isize" /\ z[Len(z)].n = Len(data)
              /\ \A i \in 2..(Len(z) - 1) : z[i].k = "run",
       data |-> data]

CodePointOf(hex) == CHOOSE c \in CodePoints : HexDigitsOf(c) = hex

DigitValue(c) == CHOOSE d \in 0..9 : DigitChar[d + 1] = c

RECURSIVE ReadChars(_, _, _)
\* the characters of a string from symbol j up to its closing quote
ReadChars(text, j, acc) ==
  IF text[j] = "\"" THEN [v |-> Str(acc), next |-> j + 1]
  ELSE IF text[j] = "\\"
  THEN IF text[j + 1] = "u"
       THEN ReadChars(text, j + 6,
                      Append(acc, CodePointOf(SubSeq(text, j + 2, j + 5))))
       ELSE ReadChars(text, j + 2, Append(acc, text[j + 1]))
  ELSE ReadChars(text, j + 1, Append(acc, text[j]))

RECURSIVE ReadDigits(_, _, _)
ReadDigits(text, j, acc) ==
  IF j <= Len(text) /\ text[j] \in Digits
  THEN ReadDigits(text, j + 1, 10 * acc + DigitValue(text[j]))
  ELSE [v |-> acc, next |-> j]

ReadNumber(text, j) ==
  LET whole == ReadDigits(text, j, 0)
  IN  IF whole.next <= Len(text) /\ text[whole.next] = "."
      THEN LET frac == ReadDigits(text, whole.next + 1, 0)
           IN  [v |-> FloatVal(10 * whole.v + frac.v), next |-> frac.next]
      ELSE [v |-> IntVal(whole.v), next |-> whole.next]

RECURSIVE ReadValue(_, _), ReadMembers(_, _, _)
ReadValue(text, j) ==
  IF text[j] = "{" THEN ReadMembers(text, j + 1, <<>>)
  ELSE IF text[j] = "\"" THEN ReadChars(text, j + 1, <<>>)
  ELSE IF text[j] \in Digits THEN ReadNumber(text, j)
  ELSE [v |-> Lit(text[j]), next |-> j + 1]

ReadMembers(text, j, acc) ==
  IF text[j] = "}" THEN [v |-> Obj(acc), next |-> j + 1]
  ELSE IF text[j] = ", " THEN ReadMembers(text, j + 1, acc)
  ELSE LET val == ReadValue(text, j + 2)
       IN  ReadMembers(text, val.next, Append(acc, Member(text[j], val.v)))

\* json.loads
JsonLoads(text) == ReadValue(text, 1).v

\* obj[key]
Get(obj, key) ==
  LET i == CHOOSE i \in 1..Len(obj.v) : obj.v[i].key = key IN obj.v[i].val

\* C20: the payload part of the frame _build_request returns (what follows
\* the 4 header bytes and the 4 length bytes) decompresses to a JSON text
\* that parses to an object whose request text is the text given, whose
\* audio rate is the rate given and whose request id is the id given; and
\* the high and low nibbles of byte 0 of the frame are PROTOCOL_VERSION and
\* HEADER_SIZE.
C20_RequestRoundTrip ==
  req.done =>
    LET frame == req.out
        unzipped == GzipDecompress(SubSeq(frame, 9, Len(frame)))
        obj == JsonLoads(unzipped.data)
    IN  /\ unzipped.ok
        /\ Get(Get(obj, "request"), "text") = Str(req.text)
        /\ Get(Get(obj, "audio"), "rate") = IntVal(req.sample_rate)
        /\ Get(Get(obj, "request"), "reqid") = Str(req.req_id)
        /\ frame[1] \div 16 = PROTOCOL_VERSION
        /\ frame[1] % 16 = HEADER_SIZE

\* a request whose text holds a backslash and a quote, at 24000 Hz
C20_Witness ==
  /\ req.done
  /\ req.text = <<"a", "\\", "\"">>
  /\ req.sample_rate = 24000
  /\ req.speed_ratio = 10
  /\ Len(req.out) > 8

(***************************************************************************)
(* Properties of construction, checked under SpecNew.                      *)
(***************************************************************************)
\* the construction raised an error and left no instance
FailedAtOnce ==
  /\ made.outcome = "raised"
  /\ made.error # "none"
  /\ made.instance = NoInstance

\* a LocalASR was constructed over a directory with neither encoder file
NoEncoderFile ==
  /\ made.cls = "LocalASR"
  /\ "encoder.int8.onnx" \notin made.given
  /\ "encoder.onnx" \notin made.given

\* a VolcEngineTTSClient was constructed with no app id, or with no access
\* token, neither passed nor in the environment
NoCredentials ==
  /\ made.cls = "VolcEngineTTSClient"
  /\ \/ Falsy(made.given.app_id) /\ Falsy(made.given.env_app_id)
     \/ Falsy(made.given.access_token) /\ Falsy(made.given.env_token)

\* C21: a construction with a required resource missing fails at once with
\* an explicit error and yields no instance: a LocalASR with no encoder
\* model file, a VolcEngineTTSClient with no app id or no access token.
C21_MissingResourceFailsConstruction ==
  (NoEncoderFile \/ NoCredentials) => FailedAtOnce

(***************************************************************************)
(* Properties of LocalASR's lookback buffer and silence counter, checked   *)
(* under SpecASR.                                                          *)
(***************************************************************************)
\* the last m elements of q, all of q when it has fewer
LastOf(q, m) == IF Len(q) <= m THEN q ELSE SubSeq(q, Len(q) - m + 1, Len(q))

\* C22 as stated: the lookback never holds more than WINDOW_BUFFER_SIZE
\* chunks, and while Idle it holds the most recent min(k, WINDOW_BUFFER_SIZE)
\* of the k chunks received since it was last cleared, in arrival order.
C22_LookbackIsLastReceived ==
  /\ Len(asr.window_buffer) <= WINDOW_BUFFER_SIZE
  /\ ~asr.is_speaking =>
       asr.window_buffer = LastOf(sinceClear, WINDOW_BUFFER_SIZE)

\* C22, amended: the lookback never holds more than WINDOW_BUFFER_SIZE
\* chunks, and while Idle it holds the most recent min(k, WINDOW_BUFFER_SIZE)
\* of the k chunks received while Idle since it was last cleared, in arrival
\* order: at full capacity the oldest chunk is the one dropped.
C22_LookbackIsLastIdleChunks ==
  /\ Len(asr.window_buffer) <= WINDOW_BUFFER_SIZE
  /\ ~asr.is_speaking =>
       asr.window_buffer = LastOf(idleRun, WINDOW_BUFFER_SIZE)

\* Idle after an utterance, with more chunks received while Idle than the
\* lookback holds: the lookback is full and its oldest chunks were dropped
C22_Witness ==
  /\ Pushed
  /\ ~asr.is_speaking
  /\ Len(idleRun) > WINDOW_BUFFER_SIZE
  /\ Len(sinceClear) > Len(idleRun)
  /\ Len(asr.window_buffer) = WINDOW_BUFFER_SIZE
  /\ asr.window_buffer[1] # idleRun[1]

\* the last call was a process_audio that ended the utterance
Finalized == Pushed /\ call.pre.is_speaking /\ ~asr.is_speaking

\* C23: while Speaking the silence counter equals the number of consecutive
\* chunks below VAD_END_THRESHOLD received since the most recent chunk at or
\* above it (a chunk at or above it sets the counter to 0); finalization
\* fires only on the chunk that makes that run SILENCE_FRAMES_FOR_ENDPOINT
\* long, however many chunks below the threshold the utterance has in
\* total; while Idle the counter is 0.
C23_SilenceCounterIsConsecutiveRun ==
  /\ asr.is_speaking => asr.silence_frame_count = lowRun
  /\ asr.is_speaking /\ Pushed /\ call.rms >= VAD_END_THRESHOLD =>
       asr.silence_frame_count = 0
  /\ Finalized => call.low = SILENCE_FRAMES_FOR_ENDPOINT
  /\ ~asr.is_speaking => asr.silence_frame_count = 0

\* still Speaking after as many chunks below the end threshold as would end
\* the utterance had they been consecutive, the last one of them just
\* received
C23_Witness ==
  /\ Pushed
  /\ asr.is_speaking
  /\ call.rms < VAD_END_THRESHOLD
  /\ lowTotal >= SILENCE_FRAMES_FOR_ENDPOINT
  /\ asr.silence_frame_count >= 1
  /\ asr.silence_frame_count < lowTotal

\* the last call was a process_audio on a chunk between the two thresholds
BetweenThresholds ==
  /\ Pushed
  /\ call.rms >= VAD_END_THRESHOLD
  /\ call.rms < VAD_START_THRESHOLD

\* C24: a chunk with VAD_END_THRESHOLD <= e < VAD_START_THRESHOLD leaves an
\* Idle recognizer Idle, the chunk going to the lookback and nothing to the
\* decoder, and keeps a Speaking recognizer Speaking with its silence
\* counter at 0; a recognizer goes from Idle to Speaking only on a chunk
\* with e >= VAD_START_THRESHOLD.
C24_TwoThresholdHysteresis ==
  /\ BetweenThresholds /\ ~call.pre.is_speaking =>
       /\ ~asr.is_speaking
       /\ call.accepted = <<>>
       /\ asr.stream = call.pre.stream
       /\ asr.window_buffer # <<>>
       /\ asr.window_buffer[Len(asr.window_buffer)] = call.chunk
  /\ BetweenThresholds /\ call.pre.is_speaking =>
       /\ asr.is_speaking
       /\ asr.silence_frame_count = 0
       /\ call.accepted = <<call.chunk>>
  /\ Pushed /\ ~call.pre.is_speaking /\ asr.is_speaking =>
       call.rms >= VAD_START_THRESHOLD

\* a chunk between the thresholds received while Speaking, after a chunk
\* below the end threshold had been counted
C24_Witness ==
  /\ BetweenThresholds
  /\ call.pre.is_speaking
  /\ call.pre.silence_frame_count >= 1
  /\ asr.is_speaking
  /\ asr.silence_frame_count = 0

\* the last call found chunks in the lookback and left it empty
Emptied ==
  /\ call.op # "none"
  /\ call.pre.window_buffer # <<>>
  /\ asr.window_buffer = <<>>

\* the last call was a process_audio that went from Idle to Speaking and
\* handed the lookback to the decoder: all of it, or all but its oldest
\* chunk when the arriving chunk found it full
FlushedAtOnset ==
  /\ Pushed
  /\ ~call.pre.is_speaking
  /\ asr.is_speaking
  /\ call.rms >= VAD_START_THRESHOLD
  /\ \E k \in 0..1 :
       IsPrefix(SubSeq(call.pre.window_buffer, 1 + k,
                       Len(call.pre.window_buffer)),
                call.accepted)

\* C25: reset(), called by the owner or by finalization inside
\* process_audio, leaves the lookback's contents and order as they were;
\* the lookback is emptied only by the flush into the decoder at speech
\* onset.
C25_ResetKeepsLookback ==
  /\ call.op = "reset" => asr.window_buffer = call.pre.window_buffer
  /\ Finalized => asr.window_buffer = call.pre.window_buffer
  /\ Emptied => FlushedAtOnset

\* the owner reset an Idle recognizer whose lookback held several chunks
C25_Witness ==
  /\ call.op = "reset"
  /\ resetRun = 1
  /\ Len(call.pre.window_buffer) >= 2
  /\ asr.window_buffer = call.pre.window_buffer

(***************************************************************************)
(* Properties of the streams of one LocalSTT, checked under SpecStt.       *)
(***************************************************************************)
\* the last operation on the LocalASR came from a stream other than the one
\* whose utterance was under way, and changed the recognizer's fields
Meddled ==
  /\ stt.last.op # "none"
  /\ stt.last.pre.is_speaking
  /\ stt.last.owner # 0
  /\ stt.last.by # stt.last.owner
  /\ stt.asr # stt.last.pre

\* C26: at most one process_audio call is in progress on the LocalASR at
\* any time, and in the middle of an utterance no stream other than the one
\* that started it resets or changes the recognizer's VAD state and decoder
\* stream, also with several streams of one LocalSTT running at once.
C26_OneCallAndNoForeignReset ==
  /\ Cardinality(stt.busy) <= 1
  /\ stt.last.others = {}
  /\ ~Meddled

(***************************************************************************)
(* Properties of _flush_buffers among the other tasks, checked under       *)
(* SpecFlush.                                                              *)
(***************************************************************************)
\* this step is a write that takes effect: a channel buffer grows or a
\* channel's frame counter changes
WriteTakesEffect ==
  \/ Len(rec'.user_buffer) > Len(rec.user_buffer)
  \/ Len(rec'.agent_buffer) > Len(rec.agent_buffer)
  \/ rec'.user_frame_count # rec.user_frame_count
  \/ rec'.agent_frame_count # rec.agent_frame_count

\* C27: a flush is atomic with respect to writes: from the moment a
\* _flush_buffers call has computed the frame counts until it has returned,
\* no write_user_frame or write_agent_frame call takes effect, and no other
\* task or stop() runs either: every step is a turn of that call's loop or
\* its return, and it appends exactly the frames it counted.
C27_FlushAtomicWithWrites ==
  [][fl.pc = "loop" =>
       /\ ~WriteTakesEffect
       /\ offered' = offered
       /\ fl'.pc = "loop" => /\ fl'.done = fl.done + 1
                             /\ fl'.todo = fl.todo
                             /\ fl'.by = fl.by
       /\ fl'.pc = "idle" => fl.done = fl.todo]_vars

\* a flush between two turns of its loop, one stereo frame appended and one
\* to go, while the recorder is recording and a writer has bytes to hand in
C27_Witness ==
  /\ fl.pc = "loop"
  /\ fl.by = "task"
  /\ fl.done >= 1
  /\ fl.done < fl.todo
  /\ rec.is_recording
  /\ offered.agent < MaxChannelBytes

(***************************************************************************)
(* Properties of the recorder's channels, checked under SpecRec.  A byte   *)
(* written to a channel carries its number on that channel, a silence byte *)
(* is 0.                                                                   *)
(***************************************************************************)
\* the frames of a channel's bytes that are not silence, in their order
DataFrames(bytes) ==
  LET frames == [k \in 1..(Len(bytes) \div FrameSize) |-> FrameOf(bytes, k)]
  IN  SelectSeq(frames, LAMBDA f : f # SILENCE_FRAME)

\* the number on its channel of a byte of the user (positive) or of the
\* agent channel (negative)
NumberOf(b) == IF b < 0 THEN 0 - b ELSE b

\* the frames are frames as written, each FrameSize consecutive bytes of
\* the channel, and each was written after the one before it
InWrittenOrder(frames) ==
  /\ \A k \in 1..Len(frames) :
       /\ NumberOf(frames[k][1]) >= 1
       /\ \A i \in 1..(FrameSize - 1) :
            NumberOf(frames[k][i + 1]) = NumberOf(frames[k][i]) + 1
  /\ \A j, k \in 1..Len(frames) :
       j < k => NumberOf(frames[j][FrameSize]) < NumberOf(frames[k][1])

\* C28: in every container and for each channel, the data frames (those
\* that are not silence padding) appear in the order in which they were
\* written to that channel, none twice and none out of order, wherever the
\* flushes fell between the writes on the two channels.
C28_ChannelOrderKept ==
  \A p \in 1..Len(files) :
    /\ InWrittenOrder(DataFrames(ChannelOf(files[p], 0)))
    /\ InWrittenOrder(DataFrames(ChannelOf(files[p], 1)))
    /\ \A k \in 1..(Len(files[p]) \div 2) :
         /\ ChannelOf(files[p], 0)[k] >= 0
         /\ ChannelOf(files[p], 1)[k] <= 0

\* a container of two stereo frames written by two flushes: the user
\* channel has two data frames, the agent channel a silence frame and then
\* a data frame
C28_Witness ==
  \E p \in 1..Len(files) :
    /\ Len(files[p]) = 2 * 2 * FrameSize
    /\ Len(DataFrames(ChannelOf(files[p], 0))) = 2
    /\ FrameOf(ChannelOf(files[p], 1), 1) = SILENCE_FRAME
    /\ Len(DataFrames(ChannelOf(files[p], 1))) = 1

\* C29: after any sequence of writes made while recording, each channel's
\* frame counter is the number of complete frames received on that channel:
\* the bytes written to it since start(), divided by the frame size and
\* rounded down, whatever the sizes of the single writes.
C29_FrameCounterIsFloorOfTotal ==
  /\ rec.user_frame_count = Len(sess.user) \div FrameSize
  /\ rec.agent_frame_count = Len(sess.agent) \div FrameSize

(***************************************************************************)
(* More properties of _parse_response, checked under SpecParse.            *)
(***************************************************************************)
\* the signed 32-bit big-endian value of bytes 4..7 of the buffer
SequenceField(data) ==
  LET b0 == IF data[5] >= 128 THEN data[5] - 256 ELSE data[5]
  IN  ((b0 * 256 + data[6]) * 256 + data[7]) * 256 + data[8]

\* an audio-only frame with a non-zero flag nibble, at least 8 bytes long
SequencedFrame(data) ==
  AudioOnlyFrame(data) /\ FlagNibble(data) # 0 /\ Len(data) >= 8

\* C30: for every audio-only frame of at least 8 bytes whose flag nibble is
\* not 0, _parse_response returns as sequence the signed 32-bit big-endian
\* value of bytes 4..7 (a negative sequence in the frame is returned as a
\* negative sequence), and takes the payload length from bytes 8..11 and
\* the payload from offset 12.
C30_SequenceAlwaysReturned ==
  (resp.done /\ SequencedFrame(resp.data)) =>
    /\ ~resp.out.raised
    /\ resp.out.sequence = SequenceField(resp.data)
    /\ resp.data[5] >= 128 => resp.out.sequence < 0
    /\ DeclaredFits(resp.data, 8) =>
         resp.out.payload = SubSeq(resp.data, 13, 12 + Declared(resp.data, 8))


(***************************************************************************)
(* Properties of the chunks synthesize_stream yields, checked under        *)
(* SpecSynth.                                                              *)
(***************************************************************************)
\* the payload an audio-only frame declares: the bytes its length field
\* counts, after that field
DeclaredPayload(data) ==
  LET at == LengthOffset(data)
  IN  SubSeq(data, at + 5, at + 4 + Declared(data, at))

\* the chunk is the declared payload of message msg, an audio-only frame,
\* whole or without its last byte
ChunkOfFrame(chunk, msg) ==
  /\ msg.type = "BINARY"
  /\ AudioOnlyFrame(msg.data)
  /\ DeclaredFits(msg.data, LengthOffset(msg.data))
  /\ LET payload == DeclaredPayload(msg.data)
     IN  \/ chunk = payload
         \/ Len(payload) >= 1 /\ chunk = SubSeq(payload, 1, Len(payload) - 1)

\* the chunks were yielded in the order their frames were delivered, one
\* chunk a frame
InDeliveryOrder ==
  \A j, k \in 1..Len(tts.yielded) :
    j < k => tts.yielded[j].at < tts.yielded[k].at

\* C31: every chunk synthesize_stream yields is non-empty, has even length
\* and is the declared payload of one audio-only frame the transport
\* delivered, with at most its last byte removed; the chunks are yielded in
\* the order their frames were delivered.
C31_ChunksNonEmptyEvenInOrder ==
  /\ \A k \in 1..Len(tts.yielded) :
       /\ tts.yielded[k].data # <<>>
       /\ Len(tts.yielded[k].data) % 2 = 0
       /\ ChunkOfFrame(tts.yielded[k].data, tts.read[tts.yielded[k].at])
  /\ InDeliveryOrder


(***************************************************************************)
(* Properties of the frame _build_request returns, checked under           *)
(* SpecBuild.                                                              *)
(***************************************************************************)
\* C32: every frame _build_request returns is a 4-byte header, a 4-byte
\* length and the payload: the message-type nibble of byte 1 is
\* MESSAGE_TYPE_FULL_CLIENT, the nibbles of byte 2 are
\* MESSAGE_SERIALIZATION_JSON and MESSAGE_COMPRESSION_GZIP, byte 3 is 0,
\* bytes 4..7 read as an unsigned big-endian number give the number of
\* payload bytes, and the frame is 8 bytes longer than that number.
C32_RequestFrameLayout ==
  req.done =>
    LET frame == req.out
        payload == GzipCompress(Dumps(RequestJson(req.req_id, req.text,
                                                  req.voice_type,
                                                  req.sample_rate,
                                                  req.speed_ratio)))
    IN  /\ Len(frame) >= 8
        /\ (frame[2] \div 16) % 16 = MESSAGE_TYPE_FULL_CLIENT
        /\ (frame[3] \div 16) % 16 = MESSAGE_SERIALIZATION_JSON
        /\ frame[3] % 16 = MESSAGE_COMPRESSION_GZIP
        /\ frame[4] = 0
        /\ SubSeq(frame, 9, Len(frame)) = payload
        /\ UnpackUInt32(SubSeq(frame, 5, 8)) = Len(payload)
        /\ Len(frame) = 8 + UnpackUInt32(SubSeq(frame, 5, 8))

\* a request whose text has a repeated character, so that the compressed
\* payload is shorter than the JSON text
C32_Witness ==
  /\ req.done
  /\ req.text = <<"a", "a", "a">>
  /\ req.voice_type = <<"w", "w">>
  /\ Len(req.out) > 8
  /\ req.out[8] = Len(req.out) - 8


(***************************************************************************)
(* Properties of SynthesizeStream, checked under SpecSegments.             *)
(***************************************************************************)
\* call i on the emitter comes where the segment protocol allows it: a
\* start_segment first or right after an end_segment, a push or an
\* end_segment right after the start_segment or a push of its own segment
InSegmentProtocol(log, i) ==
  IF log[i].op = "start_segment"
  THEN i = 1 \/ log[i - 1].op = "end_segment"
  ELSE /\ i > 1
       /\ log[i - 1].op \in {"start_segment", "push"}
       /\ log[i - 1].s = log[i].s

\* the segment of sentence stream s was ended
SegmentClosed(s) ==
  \E i \in 1..Len(seg.emitter) : seg.emitter[i] = SegCall("end_segment", s)

\* a synthesis request was made for sentence stream s
Requested(s) == \E i \in 1..Len(seg.requests) : seg.requests[i] = s

\* C33: a synthesis request that fails aborts only its own sentence.  Its
\* segment is still ended and _run_segments goes on: every start_segment
\* is followed by exactly one end_segment before the next start_segment
\* (a segment is open only while its request is under way), and every
\* sentence taken from the segments channel that is not blank gets its
\* request, whatever failed before it; the loop ends only when the
\* channel is closed and empty.
C33_FailureEndsOnlyItsSegment ==
  /\ \A i \in 1..Len(seg.emitter) : InSegmentProtocol(seg.emitter, i)
  /\ (seg.emitter # <<>> /\ seg.emitter[Len(seg.emitter)].op # "end_segment")
       => seg.pc = "synth"
  /\ \A s \in seg.failed : SegmentClosed(s)
  /\ \A k \in 1..Len(seg.full) : SentenceWanted(seg.full[k]) => Requested(k)
  /\ seg.pc \in {"next", "collect", "synth", "ended"}
  /\ seg.pc = "ended" => seg.chClosed /\ seg.taken = seg.sent

\* the first sentence's request failed after a chunk, the second failed at
\* once, and the third was synthesized to its end
C33_Witness ==
  /\ seg.failed = {1, 2}
  /\ seg.emitter =
       <<SegCall("start_segment", 1), SegCall("push", 1),
         SegCall("end_segment", 1),
         SegCall("start_segment", 2), SegCall("end_segment", 2),
         SegCall("start_segment", 3), SegCall("push", 3),
         SegCall("end_segment", 3)>>
  /\ seg.pc = "ended"


(***************************************************************************)
(* Properties of VADEngine, checked under SpecVad.                         *)
(***************************************************************************)
\* the event that tells of a change of is_speaking from pre to post
EventOfChange(pre, post) ==
  IF ~pre /\ post THEN "START_OF_SPEECH"
  ELSE IF pre /\ ~post THEN "END_OF_SPEECH"
  ELSE "None"

\* C34: process_frame returns an event exactly when the call changes
\* is_speaking: START_OF_SPEECH when it goes from false to true,
\* END_OF_SPEECH when it goes from true to false, None otherwise; so the
\* events returned since construction or the last reset() alternate
\* START, END, START, ..., beginning with START.
C34_EventExactlyOnChange ==
  /\ vad.last.op = "process_frame" =>
       vad.last.event = EventOfChange(vad.last.pre, vad.engine.is_speaking)
  /\ \A i \in 1..Len(vad.events) :
       vad.events[i] = IF i % 2 = 1 THEN "START_OF_SPEECH"
                       ELSE "END_OF_SPEECH"

\* an engine with the default thresholds that has returned START, END and
\* START again, the last one on this call
C34_Witness ==
  /\ vad.engine.start_talking_threshold = DefaultStartTalking
  /\ vad.engine.stop_talking_threshold = DefaultStopTalking
  /\ vad.events = <<"START_OF_SPEECH", "END_OF_SPEECH", "START_OF_SPEECH">>
  /\ vad.last = [op |-> "process_frame", pre |-> FALSE,
                 event |-> "START_OF_SPEECH"]


(***************************************************************************)
(* Properties of the recorder's fields under start() and stop(), checked   *)
(* under SpecRec.                                                          *)
(***************************************************************************)
\* the recorder holds a periodic flush task that has not ended and was not
\* cancelled
HoldsLiveTask ==
  /\ rec.flush_task # 0
  /\ tasks[rec.flush_task] \in {"created", "sleeping"}

\* C35: in every reachable state of the recorder, under every interleaving
\* of start(), stop() (suspended while it awaits the cancelled task),
\* writes and flushes: if the recording flag is set, a container is open
\* and the recorder holds a live periodic flush task.
C35_RecordingHasContainerAndTask ==
  rec.is_recording => (rec.wav_file # 0 /\ HoldsLiveTask)

\* what is left of a buffer after its complete frames
TailOf(buf) ==
  SubSeq(buf, (Len(buf) \div FrameSize) * FrameSize + 1, Len(buf))

\* C36: right after every flush that runs on an open container, each
\* channel buffer holds fewer bytes than one frame: the flush takes every
\* complete frame of both channels and leaves only the bytes after them.
C36_FlushLeavesNoCompleteFrame ==
  [][FlushedOpen =>
       /\ Len(rec'.user_buffer) < FrameSize
       /\ Len(rec'.agent_buffer) < FrameSize
       /\ rec'.user_buffer = TailOf(rec.user_buffer)
       /\ rec'.agent_buffer = TailOf(rec.agent_buffer)]_vars

\* a periodic flush found one frame and a half on the user channel and two
\* frames on the agent channel, and left the half frame
C36_Witness ==
  /\ rcall.op = "flush" /\ rcall.arg = 2
  /\ rec.wav_file # 0
  /\ Len(sess.user) = FrameSize + 1
  /\ Len(sess.agent) = 2 * FrameSize
  /\ Len(rec.user_buffer) = 1
  /\ rec.agent_buffer = <<>>

\* the complete frames of the bytes a channel accepted, in order
WholeFramesOf(bytes) ==
  [k \in 1..(Len(bytes) \div FrameSize) |-> FrameOf(bytes, k)]

\* C37: the artifact holds whole frames only.  When stop() returns, the
\* data frames of each channel in the container it returns (no frames
\* when it returns no container) are the complete frames of the bytes
\* written to that channel while recording, as many as the total number
\* of those bytes divided by the frame size, rounded down; the bytes of a
\* trailing incomplete frame are in the buffer and not in the container.
C37_ArtifactHoldsWholeFramesOnly ==
  [][StopReturns =>
       LET art == IF rcall'.ret # 0 THEN files'[rcall'.ret] ELSE <<>>
       IN  /\ Len(art) % (2 * FrameSize) = 0
           /\ DataFrames(ChannelOf(art, 0)) = WholeFramesOf(sess.user)
           /\ DataFrames(ChannelOf(art, 1)) = WholeFramesOf(sess.agent)
           /\ rec'.user_buffer = TailOf(sess.user)
           /\ rec'.agent_buffer = TailOf(sess.agent)]_vars

\* the complete frames flushes have taken from a channel's buffer since
\* the start() that opened the session: what the channel accepted less
\* what is still in its buffer
FramesTaken(accepted, buffer) == (Len(accepted) - Len(buffer)) \div FrameSize

\* a start() that opens a container and begins a session
StartOpens == rcall'.op = "start" /\ ~rec.is_recording /\ rec'.is_recording

\* C38: at every point of a recording session, with U and A the complete
\* frames flushes have taken so far from the user and the agent buffer,
\* max(U, A) <= synced <= U + A; and the counter never goes down within a
\* session: only a start() that opens a container sets it back.
C38_SyncedBetweenMaxAndSum ==
  /\ [](LET U == FramesTaken(sess.user, rec.user_buffer)
            A == FramesTaken(sess.agent, rec.agent_buffer)
        IN  /\ Len(sess.user) - Len(rec.user_buffer) = U * FrameSize
            /\ Len(sess.agent) - Len(rec.agent_buffer) = A * FrameSize
            /\ U <= rec.synced_frame_count
            /\ A <= rec.synced_frame_count
            /\ rec.synced_frame_count <= U + A)
  /\ [][~StartOpens =>
          rec'.synced_frame_count >= rec.synced_frame_count]_vars

\* three flushes in one session: the first took a frame from the user
\* buffer only, the second from the agent buffer only, the third a frame
\* from each, so that max(U, A) < synced < U + A
C38_Witness ==
  /\ rec.is_recording
  /\ FramesTaken(sess.user, rec.user_buffer) = 2
  /\ FramesTaken(sess.agent, rec.agent_buffer) = 2
  /\ rec.synced_frame_count = 3
  /\ rcall.op = "flush"


(***************************************************************************)
(* Properties of the lookback buffer while Speaking, checked under         *)
(* SpecASR.                                                                *)
(***************************************************************************)
\* the last call was a process_audio that found the recognizer Speaking
ReceivedWhileSpeaking == Pushed /\ call.pre.is_speaking

\* C39: while the recognizer is Speaking the lookback buffer is empty and
\* stays empty.  Every chunk received while Speaking, at whatever energy,
\* up to and including the chunk that triggers finalization, is handed to
\* the decoder, once, and is not appended to the lookback buffer; so the
\* lookback buffer is empty right after every finalization.
C39_LookbackEmptyWhileSpeaking ==
  /\ asr.is_speaking => asr.window_buffer = <<>>
  /\ ReceivedWhileSpeaking =>
       /\ call.pre.window_buffer = <<>>
       /\ call.accepted = <<call.chunk>>
       /\ asr.window_buffer = <<>>
  /\ Finalized => asr.window_buffer = <<>>

\* a finalization: the chunk that completed the run of silence was handed
\* to the decoder, and the lookback is empty although chunks were received
\* since it was cleared
C39_Witness ==
  /\ Finalized
  /\ call.rms < VAD_END_THRESHOLD
  /\ call.low = SILENCE_FRAMES_FOR_ENDPOINT
  /\ call.accepted = <<call.chunk>>
  /\ asr.window_buffer = <<>>
  /\ Len(sinceClear) > SILENCE_FRAMES_FOR_ENDPOINT

=============================================================================
